---- MODULE Spec2Model ----
(***************************************************************************)
(* Per-connection turn orchestrator of services/backend/routers/ws.py.     *)
(*                                                                         *)
(* The connection handler (ws_endpoint), the strong-cancel routine         *)
(* (cancel_workflow) and, per turn, the three asyncio tasks                *)
(* run_turn_workflow, llm_worker and tts_worker are modelled as            *)
(* coroutines: a pc names the await a coroutine is suspended at, and one   *)
(* action runs the code from that await to the next one.  Task.cancel() is *)
(* modelled as asyncio does it: the request goes to the innermost awaited  *)
(* task that is not done, and shows up there as CancelledError, which is a *)
(* BaseException and so passes every "except Exception".                   *)
(*                                                                         *)
(* Text is a sequence of Unicode code points.  Timestamps are abstracted   *)
(* to "set / not set".                                                     *)
(***************************************************************************)
EXTENDS Integers, Sequences, FiniteSets, TLC

\* ------------------------------------------------------------------ bounds
MaxMsgs   == 2   \* inbound messages read by one connection
MaxDeltas == 1   \* deltas the generator streams of one connection yield in all
MaxChunks == 1   \* PCM chunks the synthesizer streams of one connection yield in all

\* a connection on which a single turn runs: the items its streams yield in all
OneTurnDeltas == 2
OneTurnChunks == 2

\* the generator stream whose reply the language router samples: deltas it yields
RouterDeltas == 3

\* the generator stream whose reply the segmenter cuts: deltas it yields
SegDeltas == 2

Turns == 1..MaxMsgs

MaxCalls == 3    \* calls of CRAGAgentLLM.generate made by all sessions together
\* the calls of generate on the singleton llm, one per turn that reaches the generator
Calls == 1..MaxCalls

\* ------------------------------------------------------- program constants
MIN_CHARS      == 70
SOFT_MIN_CHARS == 30
MAX_CHARS      == 260
DECIDE_CHARS   == 120

\* code points of "。！？.!?"
END_PUNCTS == {12290, 65281, 65311, 46, 33, 63}

\* code points for which str.isspace() holds (what str.strip() removes)
Whitespace == (9..13) \cup (28..32) \cup {133, 160, 5760} \cup (8192..8202)
              \cup {8232, 8233, 8239, 8287, 12288}

\* ------------------------------------------------------------ text helpers
Min(S) == CHOOSE x \in S : \A y \in S : x <= y
Max2(a, b) == IF a >= b THEN a ELSE b

Rep(c, n) == [i \in 1..n |-> c]

\* buf[:n]
Prefix(buf, n) == SubSeq(buf, 1, IF n < Len(buf) THEN n ELSE Len(buf))
\* buf[n:]
Suffix(buf, n) == SubSeq(buf, (IF n < Len(buf) THEN n ELSE Len(buf)) + 1, Len(buf))

\* str.find(p, start): index (from 0) of the first p at or after start, else -1
Find(buf, p, start) ==
    LET hits == {i \in start..(Len(buf) - 1) : buf[i + 1] = p}
    IN  IF hits = {} THEN -1 ELSE Min(hits)

\* str.strip()
strip(s) ==
    LET keep == {i \in 1..Len(s) : s[i] \notin Whitespace}
    IN  IF keep = {} THEN <<>>
        ELSE SubSeq(s, Min(keep), CHOOSE x \in keep : \A y \in keep : y <= x)

\* --------------------------------------------------------------- segmenter
_find_boundary(buf, start) ==
    LET found == {Find(buf, p, start) : p \in END_PUNCTS} \ {-1}
    IN  IF found = {} THEN -1 ELSE Min(found)

\* "no segment" (Python None) in the seg field of _pop_segment's result
NoSeg == <<-1>>

\* variant of _pop_segment: the early cut (SOFT_MIN..MIN-1) is tried before the
\* natural cut at or after MIN
_pop_segment_early_first(buf) ==
    LET n    == Len(buf)
        idx  == IF n >= MIN_CHARS THEN _find_boundary(buf, MIN_CHARS - 1) ELSE -1
        idx2 == _find_boundary(buf, SOFT_MIN_CHARS - 1)
    IN  IF n < SOFT_MIN_CHARS THEN [seg |-> NoSeg, rest |-> buf]
        ELSE IF idx2 # -1 /\ (idx2 + 1) >= SOFT_MIN_CHARS /\ (idx2 + 1) < MIN_CHARS
             THEN [seg |-> Prefix(buf, idx2 + 1), rest |-> Suffix(buf, idx2 + 1)]
        ELSE IF idx # -1 THEN [seg |-> Prefix(buf, idx + 1), rest |-> Suffix(buf, idx + 1)]
        ELSE IF n >= MAX_CHARS
             THEN [seg |-> Prefix(buf, MAX_CHARS), rest |-> Suffix(buf, MAX_CHARS)]
        ELSE [seg |-> NoSeg, rest |-> buf]

_pop_segment(buf) ==
    LET n    == Len(buf)
        idx  == IF n >= MIN_CHARS THEN _find_boundary(buf, MIN_CHARS - 1) ELSE -1
        idx2 == _find_boundary(buf, SOFT_MIN_CHARS - 1)
    IN  IF n < SOFT_MIN_CHARS THEN [seg |-> NoSeg, rest |-> buf]
        ELSE IF idx # -1 THEN [seg |-> Prefix(buf, idx + 1), rest |-> Suffix(buf, idx + 1)]
        ELSE IF idx2 # -1 /\ (idx2 + 1) >= SOFT_MIN_CHARS /\ (idx2 + 1) < MIN_CHARS
             THEN [seg |-> Prefix(buf, idx2 + 1), rest |-> Suffix(buf, idx2 + 1)]
        ELSE IF n >= MAX_CHARS
             THEN [seg |-> Prefix(buf, MAX_CHARS), rest |-> Suffix(buf, MAX_CHARS)]
        ELSE [seg |-> NoSeg, rest |-> buf]

\* the sentinel None that closes the TTS queue
QueueEnd == [seg_id |-> -1, text |-> <<>>]

\* the "while True: seg, buf2 = _pop_segment(buf) ..." loop of llm_worker:
\* every segment that can be popped is put on the queue
RECURSIVE PopAll(_, _, _)
PopAll(buf, queue, seg_id) ==
    LET r == _pop_segment(buf)
    IN  IF r.seg = NoSeg THEN [buf |-> buf, queue |-> queue, seg_id |-> seg_id]
        ELSE PopAll(r.rest, Append(queue, [seg_id |-> seg_id, text |-> r.seg]), seg_id + 1)

\* --------------------------------------------------------- language router
_lang_score(sample) ==
    [cjk |-> Cardinality({i \in 1..Len(sample) : 19968 <= sample[i] /\ sample[i] <= 40959}),
     lat |-> Cardinality({i \in 1..Len(sample) :
                 (97 <= sample[i] /\ sample[i] <= 122) \/ (65 <= sample[i] /\ sample[i] <= 90)})]

\* variant of _pick_tts_by_sample: a tie goes to the English voice
_pick_tts_strict(sample) ==
    LET s == _lang_score(sample) IN IF s.cjk > s.lat THEN "zh" ELSE "en"

_pick_tts_by_sample(sample) ==
    LET s == _lang_score(sample) IN IF s.cjk >= s.lat THEN "zh" ELSE "en"

\* variant of _maybe_decide_tts: the early decision is taken at any end-punctuation,
\* however short the sample
_maybe_decide_tts_any(v, auto, force) ==
    IF v.decided \/ ~auto
    THEN IF ~v.decided THEN [v EXCEPT !.decided = TRUE, !.decided_event = TRUE] ELSE v
    ELSE IF Len(v.sample_buf) >= DECIDE_CHARS \/ force
    THEN [v EXCEPT !.chosen_tts = _pick_tts_by_sample(Prefix(v.sample_buf, DECIDE_CHARS)),
                   !.decided = TRUE, !.decided_event = TRUE]
    ELSE IF _find_boundary(v.sample_buf, 0) # -1
    THEN [v EXCEPT !.chosen_tts = _pick_tts_by_sample(
                        Prefix(v.sample_buf, _find_boundary(v.sample_buf, 0) + 1)),
                   !.decided = TRUE, !.decided_event = TRUE]
    ELSE v

\* _maybe_decide_tts on the closure cells (decided, decided_event, chosen_tts, sample_buf);
\* v is the record of run_turn_workflow's locals, auto is AUTO_LANG
_maybe_decide_tts(v, auto, force) ==
    IF v.decided \/ ~auto
    THEN IF ~v.decided THEN [v EXCEPT !.decided = TRUE, !.decided_event = TRUE] ELSE v
    ELSE IF Len(v.sample_buf) >= DECIDE_CHARS \/ force
    THEN [v EXCEPT !.chosen_tts = _pick_tts_by_sample(Prefix(v.sample_buf, DECIDE_CHARS)),
                   !.decided = TRUE, !.decided_event = TRUE]
    ELSE IF Len(v.sample_buf) >= SOFT_MIN_CHARS
            /\ _find_boundary(v.sample_buf, SOFT_MIN_CHARS - 1) # -1
    THEN [v EXCEPT !.chosen_tts = _pick_tts_by_sample(
                        Prefix(v.sample_buf,
                               Max2(_find_boundary(v.sample_buf, SOFT_MIN_CHARS - 1) + 1,
                                    SOFT_MIN_CHARS))),
                   !.decided = TRUE, !.decided_event = TRUE]
    ELSE v

\* ------------------------------------------------------------------- state
VARIABLES
    AUTO_LANG,      \* settings.TTS_AUTO_LANG, read once at startup
    budget,         \* what the environment delivers: messages, deltas, chunks, delta texts
    chan,           \* the transport: "open" or "closed" (peer gone)
    n_msgs,         \* inbound messages read so far
    n_deltas,       \* deltas the generator has yielded so far
    n_chunks,       \* PCM chunks the synthesizer has yielded so far
    turn_id,        \* SessionState.turn_id
    workflow_task,  \* SessionState.workflow_task: 0 (None) or the turn of the task
    cancel_event,   \* SessionState.cancel_event: 0 (None) or the turn of the Event
    metrics,        \* SessionState.metrics: the turn ids that are keys of the dict
    ev,             \* per turn: is its asyncio.Event (cancel_event) set
    tm,             \* per turn: its TurnMetrics object
    lock,           \* send_lock: NoOwner or the coroutine holding it
    h,              \* the coroutine ws_endpoint (with cancel_workflow inlined)
    wf,             \* per turn: the task run_turn_workflow and its closure cells
    llm,            \* per turn: the task llm_worker
    tts,            \* per turn: the task tts_worker
    cb_pending,     \* turns whose task is done and whose _done callback is scheduled
    wire,           \* frames transmitted on the channel, in order
    metrics_log,    \* lines appended to the metrics file, in order
    n_turn_msgs,    \* history: user_text and interrupt messages dispatched
    exc_at,         \* history, per turn: Len(wire) when its generator/synth raised, else -1
    got_chunk,      \* history: turns that obtained a PCM chunk from the synthesizer
    interrupted,    \* history: turns whose task was active when an interrupt came in
    generate,       \* per call of CRAGAgentLLM.generate: the position of the coroutine
    _lock,          \* CRAGAgentLLM._lock: 0 (free) or the call holding it
    _waiters,       \* asyncio.Lock._waiters of _lock: the calls waiting, in order
    executor        \* per call: its _run_sync job in the loop's default executor

sess_vars == <<turn_id, workflow_task, cancel_event, metrics, ev, tm>>
task_vars == <<wf, llm, tts, cb_pending>>
hist_vars == <<n_turn_msgs, exc_at, got_chunk, interrupted>>
crag_vars == <<generate, _lock, _waiters, executor>>
cnt_vars == <<crag_vars, AUTO_LANG, budget, n_msgs, n_deltas, n_chunks>>
env_vars == <<chan, cnt_vars>>
vars == <<env_vars, sess_vars, lock, h, task_vars, wire, metrics_log, hist_vars>>

\* deltas the generator may yield: "", "OK." and a 30-character sentence "aaa...a."
Deltas == {<<>>, <<79, 75, 46>>, Rep(97, 29) \o <<46>>}

\* the same with a 30-character Chinese sentence (29 times U+4E2D, then U+3002)
DeltasZh == Deltas \cup {Rep(20013, 29) \o <<12290>>}

\* the same with a delta that is a single space
DeltasBlank == DeltasZh \cup {<<32>>}

\* deltas for the language router: "", "OK.", 40 Latin letters, 40 CJK characters,
\* 40 digits, a 30-character Chinese sentence, and a 30-character English sentence
\* followed by 40 CJK characters
RouterTexts ==
    {<<>>, <<79, 75, 46>>, Rep(97, 40), Rep(20013, 40), Rep(48, 40),
     Rep(20013, 29) \o <<12290>>, Rep(97, 29) \o <<46>> \o Rep(20013, 40)}

\* a text of n letters "a" with "." at the indexes (from 0) in ps
Sentence(n, ps) == [i \in 1..n |-> IF (i - 1) \in ps THEN 46 ELSE 97]

\* deltas for the segmenter: lengths on both sides of SOFT_MIN_CHARS, MIN_CHARS and
\* MAX_CHARS, with end-punctuation before, between and after the thresholds, and
\* "OK. " (with a trailing space) and 69 letters followed by a newline
SegTexts ==
    {Sentence(29, {28}), Sentence(30, {29}), Sentence(69, {68}), Sentence(70, {69}),
     Sentence(80, {10}), Sentence(80, {40}), Sentence(80, {40, 75}),
     Sentence(100, {29, 59}), Sentence(MAX_CHARS - 1, {}), Sentence(MAX_CHARS, {}),
     Sentence(MAX_CHARS + 40, {}), Sentence(MAX_CHARS + 40, {MAX_CHARS + 30}),
     Rep(20013, 29) \o <<12290>>, <<79, 75, 46, 32>>, Rep(97, 69) \o <<10>>}

NoOwner == <<"none", 0>>

\* a timestamp field holds 0 for None and otherwise the number of assignments made
\* to it: time.perf_counter() never gives the value the field had before
Stamp(x) == x + 1

\* TurnMetrics(session_id, turn_id, t0): every nullable timestamp None, outcome "ok"
TurnMetrics ==
    [t_first_delta |-> 0, t_first_audio |-> 0, t_done |-> 0,
     t_interrupt_recv |-> 0, t_interrupt_done |-> 0,
     outcome |-> "ok", err_type |-> FALSE]

\* TurnMetrics.to_record: ms(a, b) is None when a or b is None
ms(a, b) == IF a = 0 \/ b = 0 THEN "null" ELSE "int"

to_record(t, m) ==
    [turn_id          |-> t,
     t_first_delta_ms |-> ms(Stamp(0), m.t_first_delta),
     t_first_audio_ms |-> ms(Stamp(0), m.t_first_audio),
     t_total_ms       |-> ms(Stamp(0), m.t_done),
     t_interrupt_ms   |-> ms(m.t_interrupt_recv, m.t_interrupt_done),
     outcome          |-> m.outcome,
     err_type         |-> m.err_type]

\* a frame as send_json / send_bytes transmits it; sess and cancelled are history:
\* the session turn id, and whether the frame's turn had its cancel_event set,
\* at the moment of the write
Frame(type, t, state, seq, text) ==
    [type |-> type, turn_id |-> t, sess |-> turn_id, cancelled |-> t \in Turns /\ ev[t],
     state |-> state, seq |-> seq, text |-> text]

WfInit ==
    [pc |-> "none", must_cancel |-> FALSE, result |-> "-", fin_ret |-> "-",
     fin_target |-> "-", rec |-> to_record(0, TurnMetrics),
     tts_queue |-> <<>>, tts_seq |-> 0, audio_started |-> FALSE,
     chosen_tts |-> "zh", decided |-> FALSE, decided_event |-> FALSE, sample_buf |-> <<>>]

LlmInit ==
    [pc |-> "none", must_cancel |-> FALSE, result |-> "-",
     full_text |-> <<>>, buf |-> <<>>, seg_id |-> 0, delta |-> <<>>]

TtsInit ==
    [pc |-> "none", must_cancel |-> FALSE, result |-> "-", pending |-> "-",
     seg_text |-> <<>>]

HInit ==
    [pc |-> "recv", exc |-> "-", kind |-> "-", old_turn |-> 0, new_turn |-> 0,
     task |-> 0, m |-> 0, timed_out |-> FALSE]

\* ws_endpoint up to its first receive_text: accept, SessionState(turn_id=0, ...), hello;
\* b is what the peer, the generator and the synthesizer will deliver
Accepted(b) ==
    /\ AUTO_LANG \in BOOLEAN
    /\ budget = b
    /\ chan = "open"
    /\ n_msgs = 0
    /\ n_deltas = 0
    /\ n_chunks = 0
    /\ turn_id = 0
    /\ workflow_task = 0
    /\ cancel_event = 0
    /\ metrics = {}
    /\ ev = [t \in Turns |-> FALSE]
    /\ tm = [t \in Turns |-> TurnMetrics]
    /\ lock = NoOwner
    /\ h = HInit
    /\ wf = [t \in Turns |-> WfInit]
    /\ llm = [t \in Turns |-> LlmInit]
    /\ tts = [t \in Turns |-> TtsInit]
    /\ cb_pending = {}
    /\ wire = <<Frame("hello", 0, "-", -1, <<>>)>>
    /\ metrics_log = <<>>
    /\ n_turn_msgs = 0
    /\ exc_at = [t \in Turns |-> -1]
    /\ got_chunk = {}
    /\ interrupted = {}
    /\ generate = [c \in Calls |-> "new"]
    /\ _lock = 0
    /\ _waiters = <<>>
    /\ executor = [c \in Calls |-> "none"]

Init == Accepted([msgs |-> MaxMsgs, deltas |-> MaxDeltas, chunks |-> MaxChunks,
                  texts |-> Deltas])

\* a connection whose peer sends one user_text and no other message
InitOneTurn == Accepted([msgs |-> 1, deltas |-> OneTurnDeltas, chunks |-> OneTurnChunks,
                         texts |-> DeltasBlank])

\* a connection whose one turn streams a reply of up to RouterDeltas deltas
InitRouter == Accepted([msgs |-> 1, deltas |-> RouterDeltas, chunks |-> 0,
                        texts |-> RouterTexts])

\* a connection whose one turn streams a reply of up to SegDeltas deltas
InitSegmenter == Accepted([msgs |-> 1, deltas |-> SegDeltas, chunks |-> 0,
                           texts |-> SegTexts])

\* run_turn_workflow._is_cancelled
_is_cancelled(t) == ev[t] \/ (t # turn_id)


\* ------------------------------------------------------------ frame writer
\* the awaits at which a coroutine is inside send_json / safe_send_bytes
LlmSend == {"send_thinking", "send_delta", "send_final"}
TtsSend == {"send_speaking", "send_begin", "send_aud", "send_end"}
WfSend  == {"send_idle", "send_error", "send_err_idle"}
HSend   == {"send_cancel", "send_int_idle", "send_unk_err"}

\* the coroutines inside a send whose wait has not been cancelled
Senders ==
    {<<"llm", t>> : t \in {u \in Turns : llm[u].pc \in LlmSend /\ ~llm[u].must_cancel}}
    \cup {<<"tts", t>> : t \in {u \in Turns : tts[u].pc \in TtsSend /\ ~tts[u].must_cancel}}
    \cup {<<"wf", t>> : t \in {u \in Turns : wf[u].pc \in WfSend /\ ~wf[u].must_cancel}}
    \cup (IF h.pc \in HSend THEN {<<"h", 0>>} ELSE {})

\* "async with lock" at the end of a step of coroutine me, lk being the lock as the
\* step leaves it: Lock.acquire() takes a free lock without suspending when no
\* other coroutine waits for it; otherwise me (if it is at a send) waits
Enter(me, lk) == lock' = IF lk = NoOwner /\ Senders' = {me} THEN me ELSE lk

\* variant of Acquire: the waiter goes on whether or not the lock is free
AcquireHeld(me) == lock' = me

\* a coroutine that waited for the lock is woken and takes it
Acquire(me) == lock = NoOwner /\ lock' = me

\* ws.send_json / ws.send_bytes under the lock: the frame goes out while the
\* channel is open
Transmit(me, f) ==
    /\ lock = me
    /\ chan = "open"
    /\ wire' = Append(wire, f)
    /\ chan' = chan

\* the write raises: the peer is gone (the channel is closed from the first
\* operation that finds it so)
TransmitFails(me) ==
    /\ lock = me
    /\ chan' = "closed"
    /\ wire' = wire

\* the lock after a coroutine that is thrown CancelledError inside a send has left
\* "async with lock"
Released(me) == IF lock = me THEN NoOwner ELSE lock

\* ------------------------------------------------------- llm_worker (task)
LlmMe(t) == <<"llm", t>>
\* the coroutine ends with res (returned / raised / cancelled); its locals are gone
LlmReturn(r, res) == [LlmInit EXCEPT !.pc = "done", !.result = res]

\* the task is scheduled by create_task and runs up to "await send_json(thinking)"
LlmStart(t) ==
    /\ llm[t].pc = "created" /\ ~llm[t].must_cancel
    /\ llm' = [llm EXCEPT ![t].pc = "send_thinking"]
    /\ UNCHANGED <<env_vars, sess_vars, h, wf, tts, cb_pending,
                   wire, metrics_log, hist_vars>>
    /\ Enter(LlmMe(t), lock)

LlmAcquire(t) ==
    /\ llm[t].pc \in LlmSend /\ ~llm[t].must_cancel
    /\ Acquire(LlmMe(t))
    /\ UNCHANGED <<env_vars, sess_vars, h, task_vars, wire, metrics_log, hist_vars>>

LlmSendThinking(t) ==
    /\ llm[t].pc = "send_thinking" /\ ~llm[t].must_cancel
    /\ \/ /\ Transmit(LlmMe(t), Frame("state_update", t, "thinking", -1, <<>>))
          /\ llm' = [llm EXCEPT ![t] = IF _is_cancelled(t) THEN LlmReturn(@, "returned")
                                       ELSE [@ EXCEPT !.pc = "gen_next"]]
       \/ /\ TransmitFails(LlmMe(t))
          /\ llm' = [llm EXCEPT ![t] = LlmReturn(@, "raised")]
    /\ UNCHANGED <<cnt_vars, sess_vars, h, wf, tts, cb_pending,
                   metrics_log, hist_vars>>
    /\ Enter(LlmMe(t), NoOwner)

\* variant of LlmDelta: after the decision the voice follows the text of each delta
LlmDeltaFollowsText(t) ==
    /\ llm[t].pc = "gen_next" /\ ~llm[t].must_cancel
    /\ n_deltas < budget.deltas
    /\ n_deltas' = n_deltas + 1
    /\ \E delta \in budget.texts :
         IF _is_cancelled(t)
         THEN /\ llm' = [llm EXCEPT ![t] = LlmReturn(@, "returned")]
              /\ UNCHANGED <<wf, tm>>
         ELSE IF delta = <<>>
         THEN UNCHANGED <<llm, wf, tm>>
         ELSE /\ llm' = [llm EXCEPT ![t].full_text = @ \o delta, ![t].buf = @ \o delta,
                                    ![t].delta = delta, ![t].pc = "send_delta"]
              /\ wf' = [wf EXCEPT ![t] =
                          IF AUTO_LANG /\ ~@.decided /\ Len(@.sample_buf) < DECIDE_CHARS
                          THEN _maybe_decide_tts(
                                   [@ EXCEPT !.sample_buf =
                                        Prefix(@ \o delta, Max2(DECIDE_CHARS, 256))],
                                   AUTO_LANG, FALSE)
                          ELSE [@ EXCEPT !.chosen_tts =
                                   IF AUTO_LANG THEN _pick_tts_by_sample(delta) ELSE @]]
              /\ tm' = [tm EXCEPT ![t].t_first_delta = IF @ = 0 THEN Stamp(@) ELSE @]
    /\ UNCHANGED <<crag_vars, AUTO_LANG, budget, chan, n_msgs, n_chunks, turn_id, workflow_task, cancel_event,
                   metrics, ev, h, tts, cb_pending, wire, metrics_log, hist_vars>>
    /\ Enter(LlmMe(t), lock)

\* variant of LlmDelta: an empty delta is handled like any other delta
LlmDeltaKeepsEmpty(t) ==
    /\ llm[t].pc = "gen_next" /\ ~llm[t].must_cancel
    /\ n_deltas < budget.deltas
    /\ n_deltas' = n_deltas + 1
    /\ \E delta \in budget.texts :
         IF _is_cancelled(t)
         THEN /\ llm' = [llm EXCEPT ![t] = LlmReturn(@, "returned")]
              /\ UNCHANGED <<wf, tm>>
         ELSE /\ llm' = [llm EXCEPT ![t].full_text = @ \o delta, ![t].buf = @ \o delta,
                                    ![t].delta = delta, ![t].pc = "send_delta"]
              /\ wf' = [wf EXCEPT ![t] =
                          IF AUTO_LANG /\ ~@.decided /\ Len(@.sample_buf) < DECIDE_CHARS
                          THEN _maybe_decide_tts(
                                   [@ EXCEPT !.sample_buf =
                                        Prefix(@ \o delta, Max2(DECIDE_CHARS, 256))],
                                   AUTO_LANG, FALSE)
                          ELSE @]
              /\ tm' = [tm EXCEPT ![t].t_first_delta = IF @ = 0 THEN Stamp(@) ELSE @]
    /\ UNCHANGED <<crag_vars, AUTO_LANG, budget, chan, n_msgs, n_chunks, turn_id, workflow_task, cancel_event,
                   metrics, ev, h, tts, cb_pending, wire, metrics_log, hist_vars>>
    /\ Enter(LlmMe(t), lock)

\* "async for delta in llm.generate_stream(user_text)": the next delta arrives
LlmDelta(t) ==
    /\ llm[t].pc = "gen_next" /\ ~llm[t].must_cancel
    /\ n_deltas < budget.deltas
    /\ n_deltas' = n_deltas + 1
    /\ \E delta \in budget.texts :
         IF _is_cancelled(t)
         THEN /\ llm' = [llm EXCEPT ![t] = LlmReturn(@, "returned")]
              /\ UNCHANGED <<wf, tm>>
         ELSE IF delta = <<>>
         THEN UNCHANGED <<llm, wf, tm>>
         ELSE /\ llm' = [llm EXCEPT ![t].full_text = @ \o delta, ![t].buf = @ \o delta,
                                    ![t].delta = delta, ![t].pc = "send_delta"]
              /\ wf' = [wf EXCEPT ![t] =
                          IF AUTO_LANG /\ ~@.decided /\ Len(@.sample_buf) < DECIDE_CHARS
                          THEN _maybe_decide_tts(
                                   [@ EXCEPT !.sample_buf =
                                        Prefix(@ \o delta, Max2(DECIDE_CHARS, 256))],
                                   AUTO_LANG, FALSE)
                          ELSE @]
              /\ tm' = [tm EXCEPT ![t].t_first_delta = IF @ = 0 THEN Stamp(@) ELSE @]
    /\ UNCHANGED <<crag_vars, AUTO_LANG, budget, chan, n_msgs, n_chunks, turn_id, workflow_task, cancel_event,
                   metrics, ev, h, tts, cb_pending, wire, metrics_log, hist_vars>>
    /\ Enter(LlmMe(t), lock)

\* variant of LlmStreamEnd: the tail is flushed without the forced language decision
LlmStreamEndTailOnly(t) ==
    /\ llm[t].pc = "gen_next" /\ ~llm[t].must_cancel
    /\ LET v    == wf[t]
           tail == strip(llm[t].buf)
       IN  /\ wf' = [wf EXCEPT ![t] =
                       IF tail # <<>>
                       THEN [v EXCEPT !.tts_queue =
                                Append(@, [seg_id |-> llm[t].seg_id, text |-> tail])]
                       ELSE v]
           /\ llm' = [llm EXCEPT ![t] =
                        LET r == IF tail # <<>> THEN [@ EXCEPT !.seg_id = @ + 1] ELSE @
                        IN  IF ~_is_cancelled(t) THEN [r EXCEPT !.pc = "send_final"]
                            ELSE LlmReturn(r, "returned")]
    /\ UNCHANGED <<env_vars, sess_vars, h, tts, cb_pending,
                   wire, metrics_log, hist_vars>>
    /\ Enter(LlmMe(t), lock)

\* variant of LlmStreamEnd: a remainder shorter than SOFT_MIN_CHARS is not flushed
LlmStreamEndLongTail(t) ==
    /\ llm[t].pc = "gen_next" /\ ~llm[t].must_cancel
    /\ LET v    == IF AUTO_LANG /\ ~wf[t].decided
                   THEN _maybe_decide_tts(wf[t], AUTO_LANG, TRUE) ELSE wf[t]
           tail == IF Len(llm[t].buf) >= SOFT_MIN_CHARS THEN strip(llm[t].buf) ELSE <<>>
       IN  /\ wf' = [wf EXCEPT ![t] =
                       IF tail # <<>>
                       THEN [v EXCEPT !.tts_queue =
                                Append(@, [seg_id |-> llm[t].seg_id, text |-> tail])]
                       ELSE v]
           /\ llm' = [llm EXCEPT ![t] =
                        LET r == IF tail # <<>> THEN [@ EXCEPT !.seg_id = @ + 1] ELSE @
                        IN  IF ~_is_cancelled(t) THEN [r EXCEPT !.pc = "send_final"]
                            ELSE LlmReturn(r, "returned")]
    /\ UNCHANGED <<env_vars, sess_vars, h, tts, cb_pending,
                   wire, metrics_log, hist_vars>>
    /\ Enter(LlmMe(t), lock)

\* the generator stream ends: forced language decision, tail flush, assistant_final
LlmStreamEnd(t) ==
    /\ llm[t].pc = "gen_next" /\ ~llm[t].must_cancel
    /\ LET v    == IF AUTO_LANG /\ ~wf[t].decided
                   THEN _maybe_decide_tts(wf[t], AUTO_LANG, TRUE) ELSE wf[t]
           tail == strip(llm[t].buf)
       IN  /\ wf' = [wf EXCEPT ![t] =
                       IF tail # <<>>
                       THEN [v EXCEPT !.tts_queue =
                                Append(@, [seg_id |-> llm[t].seg_id, text |-> tail])]
                       ELSE v]
           /\ llm' = [llm EXCEPT ![t] =
                        LET r == IF tail # <<>> THEN [@ EXCEPT !.seg_id = @ + 1] ELSE @
                        IN  IF ~_is_cancelled(t) THEN [r EXCEPT !.pc = "send_final"]
                            ELSE LlmReturn(r, "returned")]
    /\ UNCHANGED <<env_vars, sess_vars, h, tts, cb_pending,
                   wire, metrics_log, hist_vars>>
    /\ Enter(LlmMe(t), lock)

\* the generator raises
LlmGenRaises(t) ==
    /\ llm[t].pc = "gen_next" /\ ~llm[t].must_cancel
    /\ llm' = [llm EXCEPT ![t] = LlmReturn(@, "raised")]
    /\ exc_at' = [exc_at EXCEPT ![t] = IF @ = -1 THEN Len(wire) ELSE @]
    /\ UNCHANGED <<env_vars, sess_vars, lock, h, wf, tts, cb_pending,
                   wire, metrics_log, n_turn_msgs, got_chunk, interrupted>>

LlmSendDelta(t) ==
    /\ llm[t].pc = "send_delta" /\ ~llm[t].must_cancel
    /\ \/ /\ Transmit(LlmMe(t), Frame("assistant_delta", t, "-", -1, llm[t].delta))
          /\ IF AUTO_LANG /\ ~wf[t].decided
             THEN /\ llm' = [llm EXCEPT ![t].pc = "gen_next"]
                  /\ wf' = wf
             ELSE LET r == PopAll(llm[t].buf, wf[t].tts_queue, llm[t].seg_id)
                  IN  /\ llm' = [llm EXCEPT ![t].pc = "gen_next", ![t].buf = r.buf,
                                            ![t].seg_id = r.seg_id]
                      /\ wf' = [wf EXCEPT ![t].tts_queue = r.queue]
       \/ /\ TransmitFails(LlmMe(t))
          /\ llm' = [llm EXCEPT ![t] = LlmReturn(@, "raised")]
          /\ wf' = wf
    /\ UNCHANGED <<cnt_vars, sess_vars, h, tts, cb_pending, metrics_log, hist_vars>>
    /\ Enter(LlmMe(t), NoOwner)

\* llm_worker sending what is left in buf as the text of assistant_final
LlmSendFinalBuf(t) ==
    /\ llm[t].pc = "send_final" /\ ~llm[t].must_cancel
    /\ \/ /\ Transmit(LlmMe(t), Frame("assistant_final", t, "-", -1, llm[t].buf))
          /\ llm' = [llm EXCEPT ![t] = LlmReturn(@, "returned")]
       \/ /\ TransmitFails(LlmMe(t))
          /\ llm' = [llm EXCEPT ![t] = LlmReturn(@, "raised")]
    /\ UNCHANGED <<cnt_vars, sess_vars, h, wf, tts, cb_pending,
                   metrics_log, hist_vars>>
    /\ Enter(LlmMe(t), NoOwner)

LlmSendFinal(t) ==
    /\ llm[t].pc = "send_final" /\ ~llm[t].must_cancel
    /\ \/ /\ Transmit(LlmMe(t), Frame("assistant_final", t, "-", -1, llm[t].full_text))
          /\ llm' = [llm EXCEPT ![t] = LlmReturn(@, "returned")]
       \/ /\ TransmitFails(LlmMe(t))
          /\ llm' = [llm EXCEPT ![t] = LlmReturn(@, "raised")]
    /\ UNCHANGED <<cnt_vars, sess_vars, h, wf, tts, cb_pending,
                   metrics_log, hist_vars>>
    /\ Enter(LlmMe(t), NoOwner)

\* CancelledError is thrown into llm_worker at the await it is suspended at
\* (or before its first step); nothing in llm_worker catches it
LlmCancelled(t) ==
    /\ llm[t].pc \notin {"none", "done"} /\ llm[t].must_cancel
    /\ llm' = [llm EXCEPT ![t] = LlmReturn(@, "cancelled")]
    /\ UNCHANGED <<env_vars, sess_vars, h, wf, tts, cb_pending,
                   wire, metrics_log, hist_vars>>
    /\ Enter(LlmMe(t), Released(LlmMe(t)))

\* ------------------------------------------------------- tts_worker (task)
TtsMe(t) == <<"tts", t>>
TtsReturn(r, res) == [TtsInit EXCEPT !.pc = "done", !.result = res]

\* tts_worker's finally block, entered with outcome res (returned / raised / cancelled):
\* audio_end is sent when the turn is not cancelled and audio_started is set
TtsFinally(r, t, res) ==
    IF ~_is_cancelled(t) /\ wf[t].audio_started
    THEN [r EXCEPT !.pc = "send_end", !.pending = res, !.must_cancel = FALSE]
    ELSE TtsReturn(r, res)

\* top of "while True": the cancellation check before the queue pop
TtsLoopTop(r, t) ==
    IF _is_cancelled(t) THEN TtsFinally(r, t, "returned") ELSE [r EXCEPT !.pc = "queue_get"]

TtsStart(t) ==
    /\ tts[t].pc = "created" /\ ~tts[t].must_cancel
    /\ tts' = [tts EXCEPT ![t] = IF AUTO_LANG THEN [@ EXCEPT !.pc = "wait_decided"]
                                 ELSE TtsLoopTop(@, t)]
    /\ UNCHANGED <<env_vars, sess_vars, h, wf, llm, cb_pending,
                   wire, metrics_log, hist_vars>>
    /\ Enter(TtsMe(t), lock)

\* "await decided_event.wait()" returns
TtsDecided(t) ==
    /\ tts[t].pc = "wait_decided" /\ ~tts[t].must_cancel
    /\ wf[t].decided_event
    /\ tts' = [tts EXCEPT ![t] = TtsLoopTop(@, t)]
    /\ UNCHANGED <<env_vars, sess_vars, h, wf, llm, cb_pending,
                   wire, metrics_log, hist_vars>>
    /\ Enter(TtsMe(t), lock)

\* "item = await tts_queue.get()" returns
TtsQueueGet(t) ==
    /\ tts[t].pc = "queue_get" /\ ~tts[t].must_cancel
    /\ wf[t].tts_queue # <<>>
    /\ LET item == Head(wf[t].tts_queue)
       IN  /\ wf' = [wf EXCEPT ![t].tts_queue = Tail(@)]
           /\ tts' = [tts EXCEPT ![t] =
                  IF item = QueueEnd THEN TtsFinally(@, t, "returned")
                  ELSE IF strip(item.text) = <<>> THEN TtsLoopTop(@, t)
                  ELSE IF _is_cancelled(t) THEN TtsFinally(@, t, "returned")
                  ELSE IF ~wf[t].audio_started
                       THEN [@ EXCEPT !.seg_text = item.text, !.pc = "send_speaking"]
                  ELSE [@ EXCEPT !.seg_text = item.text, !.pc = "stream_next"]]
    /\ UNCHANGED <<env_vars, sess_vars, h, llm, cb_pending,
                   wire, metrics_log, hist_vars>>
    /\ Enter(TtsMe(t), lock)

TtsAcquire(t) ==
    /\ tts[t].pc \in TtsSend /\ ~tts[t].must_cancel
    /\ Acquire(TtsMe(t))
    /\ UNCHANGED <<env_vars, sess_vars, h, task_vars, wire, metrics_log, hist_vars>>

TtsSendSpeaking(t) ==
    /\ tts[t].pc = "send_speaking" /\ ~tts[t].must_cancel
    /\ \/ /\ Transmit(TtsMe(t), Frame("state_update", t, "speaking", -1, <<>>))
          /\ tts' = [tts EXCEPT ![t].pc = "send_begin"]
       \/ /\ TransmitFails(TtsMe(t))
          /\ tts' = [tts EXCEPT ![t] = TtsFinally(@, t, "raised")]
    /\ UNCHANGED <<cnt_vars, sess_vars, h, wf, llm, cb_pending,
                   metrics_log, hist_vars>>
    /\ Enter(TtsMe(t), NoOwner)

\* tts_worker sending audio_begin without recording audio_started
TtsSendBeginUnrecorded(t) ==
    /\ tts[t].pc = "send_begin" /\ ~tts[t].must_cancel
    /\ \/ /\ Transmit(TtsMe(t), Frame("audio_begin", t, wf[t].chosen_tts, -1, <<>>))
          /\ wf' = wf
          /\ tts' = [tts EXCEPT ![t].pc = "stream_next"]
       \/ /\ TransmitFails(TtsMe(t))
          /\ wf' = wf
          /\ tts' = [tts EXCEPT ![t] = TtsFinally(@, t, "raised")]
    /\ UNCHANGED <<cnt_vars, sess_vars, h, llm, cb_pending, metrics_log, hist_vars>>
    /\ Enter(TtsMe(t), NoOwner)

\* audio_begin, then audio_started = True, then the synthesizer stream is opened
TtsSendBegin(t) ==
    /\ tts[t].pc = "send_begin" /\ ~tts[t].must_cancel
    /\ \/ /\ Transmit(TtsMe(t), Frame("audio_begin", t, wf[t].chosen_tts, -1, <<>>))
          /\ wf' = [wf EXCEPT ![t].audio_started = TRUE]
          /\ tts' = [tts EXCEPT ![t].pc = "stream_next"]
       \/ /\ TransmitFails(TtsMe(t))
          /\ wf' = wf
          /\ tts' = [tts EXCEPT ![t] = TtsFinally(@, t, "raised")]
    /\ UNCHANGED <<cnt_vars, sess_vars, h, llm, cb_pending, metrics_log, hist_vars>>
    /\ Enter(TtsMe(t), NoOwner)

\* "async for chunk in chosen_tts.stream(seg_text)": a chunk arrives
TtsChunk(t) ==
    /\ tts[t].pc = "stream_next" /\ ~tts[t].must_cancel
    /\ n_chunks < budget.chunks
    /\ n_chunks' = n_chunks + 1
    /\ tts' = [tts EXCEPT ![t] =
                  IF _is_cancelled(t) THEN TtsFinally(@, t, "returned")
                  ELSE [@ EXCEPT !.pc = "send_aud"]]
    /\ got_chunk' = got_chunk \cup {t}
    /\ UNCHANGED <<crag_vars, AUTO_LANG, budget, chan, n_msgs, n_deltas, sess_vars, h, wf, llm, cb_pending,
                   wire, metrics_log, n_turn_msgs, exc_at, interrupted>>
    /\ Enter(TtsMe(t), lock)

\* the synthesizer stream of the segment ends
TtsStreamEnd(t) ==
    /\ tts[t].pc = "stream_next" /\ ~tts[t].must_cancel
    /\ tts' = [tts EXCEPT ![t] = TtsLoopTop(@, t)]
    /\ UNCHANGED <<env_vars, sess_vars, h, wf, llm, cb_pending,
                   wire, metrics_log, hist_vars>>
    /\ Enter(TtsMe(t), lock)

\* the synthesizer raises
TtsSynthRaises(t) ==
    /\ tts[t].pc = "stream_next" /\ ~tts[t].must_cancel
    /\ tts' = [tts EXCEPT ![t] = TtsFinally(@, t, "raised")]
    /\ exc_at' = [exc_at EXCEPT ![t] = IF @ = -1 THEN Len(wire) ELSE @]
    /\ UNCHANGED <<env_vars, sess_vars, h, wf, llm, cb_pending,
                   wire, metrics_log, n_turn_msgs, got_chunk, interrupted>>
    /\ Enter(TtsMe(t), lock)

\* tts_worker sending AUD0 frames without "tts_seq += 1"
TtsSendAudSameSeq(t) ==
    /\ tts[t].pc = "send_aud" /\ ~tts[t].must_cancel
    /\ \/ /\ Transmit(TtsMe(t), Frame("AUD0", t, "-", wf[t].tts_seq, <<>>))
          /\ tm' = [tm EXCEPT ![t].t_first_audio = IF @ = 0 THEN Stamp(@) ELSE @]
          /\ wf' = wf
          /\ tts' = [tts EXCEPT ![t].pc = "stream_next"]
          /\ ev' = ev
       \/ /\ TransmitFails(TtsMe(t))
          /\ ev' = [ev EXCEPT ![t] = TRUE]
          /\ tts' = [tts EXCEPT ![t] = TtsReturn(@, "returned")]
          /\ UNCHANGED <<tm, wf>>
    /\ UNCHANGED <<cnt_vars, turn_id, workflow_task, cancel_event, metrics,
                   h, llm, cb_pending, metrics_log, hist_vars>>
    /\ Enter(TtsMe(t), NoOwner)

\* safe_send_bytes(AUD0 header + chunk); a failed write sets the cancel event
TtsSendAud(t) ==
    /\ tts[t].pc = "send_aud" /\ ~tts[t].must_cancel
    /\ \/ /\ Transmit(TtsMe(t), Frame("AUD0", t, "-", wf[t].tts_seq, <<>>))
          /\ tm' = [tm EXCEPT ![t].t_first_audio = IF @ = 0 THEN Stamp(@) ELSE @]
          /\ wf' = [wf EXCEPT ![t].tts_seq = @ + 1]
          /\ tts' = [tts EXCEPT ![t].pc = "stream_next"]
          /\ ev' = ev
       \/ /\ TransmitFails(TtsMe(t))
          /\ ev' = [ev EXCEPT ![t] = TRUE]
          /\ tts' = [tts EXCEPT ![t] = TtsReturn(@, "returned")]
          /\ UNCHANGED <<tm, wf>>
    /\ UNCHANGED <<cnt_vars, turn_id, workflow_task, cancel_event, metrics,
                   h, llm, cb_pending, metrics_log, hist_vars>>
    /\ Enter(TtsMe(t), NoOwner)

\* audio_end, sent from the finally block
TtsSendEnd(t) ==
    /\ tts[t].pc = "send_end" /\ ~tts[t].must_cancel
    /\ \/ /\ Transmit(TtsMe(t), Frame("audio_end", t, "-", -1, <<>>))
          /\ tts' = [tts EXCEPT ![t] = TtsReturn(@, @.pending)]
       \/ /\ TransmitFails(TtsMe(t))
          /\ tts' = [tts EXCEPT ![t] = TtsReturn(@, "raised")]
    /\ UNCHANGED <<cnt_vars, sess_vars, h, wf, llm, cb_pending,
                   metrics_log, hist_vars>>
    /\ Enter(TtsMe(t), NoOwner)

\* CancelledError is thrown into tts_worker: before its first step the coroutine
\* never runs; inside the finally block it ends the task; anywhere else the
\* finally block runs
TtsCancelled(t) ==
    /\ tts[t].pc \notin {"none", "done"} /\ tts[t].must_cancel
    /\ tts' = [tts EXCEPT ![t] = IF @.pc \in {"created", "send_end"}
                                 THEN TtsReturn(@, "cancelled")
                                 ELSE TtsFinally(@, t, "cancelled")]
    /\ UNCHANGED <<env_vars, sess_vars, h, wf, llm, cb_pending,
                   wire, metrics_log, hist_vars>>
    /\ Enter(TtsMe(t), Released(TtsMe(t)))

\* ------------------------------------------------ run_turn_workflow (task)
WfMe(t) == <<"wf", t>>

\* Task.cancel() on the task of turn t: a task that is done ignores it; a task
\* awaiting a child task that is not done passes the request on to the child;
\* otherwise CancelledError is raised at the await the task is suspended at
CancelTask(t) ==
    IF wf[t].pc = "done" THEN UNCHANGED <<wf, llm, tts>>
    ELSE IF /\ \/ wf[t].pc = "await_llm"
               \/ wf[t].pc = "fin_await" /\ wf[t].fin_target = "llm"
            /\ llm[t].pc # "done"
    THEN llm' = [llm EXCEPT ![t].must_cancel = TRUE] /\ UNCHANGED <<wf, tts>>
    ELSE IF /\ \/ wf[t].pc = "await_tts"
               \/ wf[t].pc = "fin_await" /\ wf[t].fin_target = "tts"
            /\ tts[t].pc # "done"
    THEN tts' = [tts EXCEPT ![t].must_cancel = TRUE] /\ UNCHANGED <<wf, llm>>
    ELSE wf' = [wf EXCEPT ![t].must_cancel = TRUE] /\ UNCHANGED <<llm, tts>>

\* a finally block that awaits the workers without "t.cancel()"
WfFinallyAwaitOnly(t, w, m, ret) ==
    IF llm[t].pc # "done"
    THEN /\ wf' = [wf EXCEPT ![t] = [w EXCEPT !.pc = "fin_await", !.fin_target = "llm",
                                              !.fin_ret = ret, !.must_cancel = FALSE]]
         /\ tm' = [tm EXCEPT ![t] = m]
         /\ UNCHANGED <<llm, tts>>
    ELSE IF tts[t].pc # "done"
    THEN /\ wf' = [wf EXCEPT ![t] = [w EXCEPT !.pc = "fin_await", !.fin_target = "tts",
                                              !.fin_ret = ret, !.must_cancel = FALSE]]
         /\ tm' = [tm EXCEPT ![t] = m]
         /\ UNCHANGED <<llm, tts>>
    ELSE /\ tm' = [tm EXCEPT ![t] = [m EXCEPT !.t_done = IF @ = 0 THEN Stamp(@) ELSE @]]
         /\ wf' = [wf EXCEPT ![t] = [w EXCEPT !.pc = "append", !.fin_ret = ret,
                                              !.must_cancel = FALSE,
                                              !.rec = to_record(t, [m EXCEPT !.t_done = IF @ = 0 THEN Stamp(@) ELSE @])]]
         /\ UNCHANGED <<llm, tts>>

\* the finally block, entered with the closure record w, the metrics m and the way
\* the body ended (ret): each worker that is not done is cancelled and awaited;
\* then t_done is stamped and to_record() is evaluated for append_metrics
WfFinally(t, w, m, ret) ==
    IF llm[t].pc # "done"
    THEN /\ llm' = [llm EXCEPT ![t].must_cancel = TRUE]
         /\ wf' = [wf EXCEPT ![t] = [w EXCEPT !.pc = "fin_await", !.fin_target = "llm",
                                              !.fin_ret = ret, !.must_cancel = FALSE]]
         /\ tm' = [tm EXCEPT ![t] = m]
         /\ tts' = tts
    ELSE IF tts[t].pc # "done"
    THEN /\ tts' = [tts EXCEPT ![t].must_cancel = TRUE]
         /\ wf' = [wf EXCEPT ![t] = [w EXCEPT !.pc = "fin_await", !.fin_target = "tts",
                                              !.fin_ret = ret, !.must_cancel = FALSE]]
         /\ tm' = [tm EXCEPT ![t] = m]
         /\ llm' = llm
    ELSE /\ tm' = [tm EXCEPT ![t] = [m EXCEPT !.t_done = IF @ = 0 THEN Stamp(@) ELSE @]]
         /\ wf' = [wf EXCEPT ![t] = [w EXCEPT !.pc = "append", !.fin_ret = ret,
                                              !.must_cancel = FALSE,
                                              !.rec = to_record(t, [m EXCEPT !.t_done = IF @ = 0 THEN Stamp(@) ELSE @])]]
         /\ UNCHANGED <<llm, tts>>

\* "except asyncio.CancelledError": outcome cancelled when the turn is really
\* cancelled, return, and so into the finally block
WfExceptCancelled(t) ==
    WfFinally(t, wf[t],
              IF _is_cancelled(t) THEN [tm[t] EXCEPT !.outcome = "cancelled"] ELSE tm[t],
              "returned")

\* the task ends (ret: returned / raised / cancelled); its done callback is scheduled
WfEnd(t, ret) ==
    /\ wf' = [wf EXCEPT ![t].pc = "done", ![t].result = ret, ![t].must_cancel = FALSE,
                         ![t].fin_ret = "-", ![t].fin_target = "-",
                         ![t].rec = to_record(0, TurnMetrics)]
    /\ cb_pending' = cb_pending \cup {t}

\* first step of the task: the two workers are created, "await llm_task"
WfStart(t) ==
    /\ wf[t].pc = "created" /\ ~wf[t].must_cancel
    /\ wf' = [wf EXCEPT ![t].pc = "await_llm"]
    /\ llm' = [llm EXCEPT ![t].pc = "created"]
    /\ tts' = [tts EXCEPT ![t].pc = "created"]
    /\ UNCHANGED <<env_vars, sess_vars, lock, h, cb_pending,
                   wire, metrics_log, hist_vars>>

\* cancelled before its first step: the coroutine body never runs
WfCancelledBeforeStart(t) ==
    /\ wf[t].pc = "created" /\ wf[t].must_cancel
    /\ WfEnd(t, "cancelled")
    /\ UNCHANGED <<env_vars, sess_vars, lock, h, llm, tts,
                   wire, metrics_log, hist_vars>>

\* run_turn_workflow with "await tts_task" left out: idle follows the generator
WfAwaitLlmOnly(t) ==
    /\ wf[t].pc = "await_llm"
    /\ llm[t].pc = "done" \/ wf[t].must_cancel
    /\ IF wf[t].must_cancel \/ llm[t].result = "cancelled"
       THEN WfExceptCancelled(t)
       ELSE /\ wf' = [wf EXCEPT ![t] =
                        IF llm[t].result = "raised" THEN [@ EXCEPT !.pc = "send_error"]
                        ELSE [@ EXCEPT !.tts_queue = Append(@, QueueEnd), !.pc = "send_idle"]]
            /\ UNCHANGED <<tm, llm, tts>>
    /\ UNCHANGED <<env_vars, turn_id, workflow_task, cancel_event, metrics, ev,
                   h, cb_pending, wire, metrics_log, hist_vars>>
    /\ Enter(WfMe(t), lock)

\* "await llm_task" returns or raises
WfAwaitLlm(t) ==
    /\ wf[t].pc = "await_llm"
    /\ llm[t].pc = "done" \/ wf[t].must_cancel
    /\ IF wf[t].must_cancel \/ llm[t].result = "cancelled"
       THEN WfExceptCancelled(t)
       ELSE /\ wf' = [wf EXCEPT ![t] =
                        IF llm[t].result = "raised" THEN [@ EXCEPT !.pc = "send_error"]
                        ELSE [@ EXCEPT !.tts_queue = Append(@, QueueEnd), !.pc = "await_tts"]]
            /\ UNCHANGED <<tm, llm, tts>>
    /\ UNCHANGED <<env_vars, turn_id, workflow_task, cancel_event, metrics, ev,
                   h, cb_pending, wire, metrics_log, hist_vars>>
    /\ Enter(WfMe(t), lock)

\* "await tts_task" returns or raises; then state_update(idle) unless cancelled
WfAwaitTts(t) ==
    /\ wf[t].pc = "await_tts"
    /\ tts[t].pc = "done" \/ wf[t].must_cancel
    /\ IF wf[t].must_cancel \/ tts[t].result = "cancelled"
       THEN WfExceptCancelled(t)
       ELSE IF tts[t].result = "raised"
       THEN wf' = [wf EXCEPT ![t].pc = "send_error"] /\ UNCHANGED <<tm, llm, tts>>
       ELSE IF ~_is_cancelled(t)
       THEN wf' = [wf EXCEPT ![t].pc = "send_idle"] /\ UNCHANGED <<tm, llm, tts>>
       ELSE WfFinally(t, wf[t], tm[t], "returned")
    /\ UNCHANGED <<env_vars, turn_id, workflow_task, cancel_event, metrics, ev,
                   h, cb_pending, wire, metrics_log, hist_vars>>
    /\ Enter(WfMe(t), lock)

WfAcquire(t) ==
    /\ wf[t].pc \in WfSend /\ ~wf[t].must_cancel
    /\ Acquire(WfMe(t))
    /\ UNCHANGED <<env_vars, sess_vars, h, task_vars, wire, metrics_log, hist_vars>>

\* state_update(idle) at the end of the try body; a failed write is an Exception
\* raised inside the try
WfSendIdle(t) ==
    /\ wf[t].pc = "send_idle" /\ ~wf[t].must_cancel
    /\ \/ /\ Transmit(WfMe(t), Frame("state_update", t, "idle", -1, <<>>))
          /\ WfFinally(t, wf[t], tm[t], "returned")
       \/ /\ TransmitFails(WfMe(t))
          /\ wf' = [wf EXCEPT ![t].pc = "send_error"]
          /\ UNCHANGED <<tm, llm, tts>>
    /\ UNCHANGED <<cnt_vars, turn_id, workflow_task, cancel_event, metrics, ev,
                   h, cb_pending, metrics_log, hist_vars>>
    /\ Enter(WfMe(t), NoOwner)

\* "except Exception": the error frame, outcome error, then idle when not superseded
WfSendError(t) ==
    /\ wf[t].pc = "send_error" /\ ~wf[t].must_cancel
    /\ \/ /\ Transmit(WfMe(t), Frame("error", t, "-", -1, <<>>))
          /\ IF t = turn_id
             THEN /\ wf' = [wf EXCEPT ![t].pc = "send_err_idle"]
                  /\ tm' = [tm EXCEPT ![t].outcome = "error", ![t].err_type = TRUE]
                  /\ UNCHANGED <<llm, tts>>
             ELSE WfFinally(t, wf[t],
                            [tm[t] EXCEPT !.outcome = "error", !.err_type = TRUE], "returned")
       \/ /\ TransmitFails(WfMe(t))
          /\ WfFinally(t, wf[t], tm[t], "raised")
    /\ UNCHANGED <<cnt_vars, turn_id, workflow_task, cancel_event, metrics, ev,
                   h, cb_pending, metrics_log, hist_vars>>
    /\ Enter(WfMe(t), NoOwner)

WfSendErrIdle(t) ==
    /\ wf[t].pc = "send_err_idle" /\ ~wf[t].must_cancel
    /\ \/ /\ Transmit(WfMe(t), Frame("state_update", t, "idle", -1, <<>>))
          /\ WfFinally(t, wf[t], tm[t], "returned")
       \/ /\ TransmitFails(WfMe(t))
          /\ WfFinally(t, wf[t], tm[t], "raised")
    /\ UNCHANGED <<cnt_vars, turn_id, workflow_task, cancel_event, metrics, ev,
                   h, cb_pending, metrics_log, hist_vars>>
    /\ Enter(WfMe(t), NoOwner)

\* "await t" in the finally block returns or raises: CancelledError is not an
\* Exception, so it leaves the finally block and ends the task
WfFinAwait(t) ==
    /\ wf[t].pc = "fin_await"
    /\ LET child == IF wf[t].fin_target = "llm" THEN llm[t] ELSE tts[t]
       IN  /\ child.pc = "done" \/ wf[t].must_cancel
           /\ IF wf[t].must_cancel \/ child.result = "cancelled"
              THEN WfEnd(t, "cancelled") /\ UNCHANGED <<tm, llm, tts>>
              ELSE WfFinally(t, wf[t], tm[t], wf[t].fin_ret) /\ UNCHANGED cb_pending
    /\ UNCHANGED <<env_vars, turn_id, workflow_task, cancel_event, metrics, ev,
                   lock, h, wire, metrics_log, hist_vars>>

\* append_metrics writes the record; then state.metrics.pop(turn_id); the task ends
WfAppend(t) ==
    /\ wf[t].pc = "append" /\ ~wf[t].must_cancel
    /\ metrics_log' = Append(metrics_log, wf[t].rec)
    /\ metrics' = metrics \ {t}
    /\ WfEnd(t, wf[t].fin_ret)
    /\ UNCHANGED <<env_vars, turn_id, workflow_task, cancel_event, ev, tm,
                   lock, h, llm, tts, wire, hist_vars>>

\* CancelledError at "await send_json(idle)" inside the try
WfCancelledInTry(t) ==
    /\ wf[t].pc = "send_idle" /\ wf[t].must_cancel
    /\ WfExceptCancelled(t)
    /\ UNCHANGED <<env_vars, turn_id, workflow_task, cancel_event, metrics, ev,
                   h, cb_pending, wire, metrics_log, hist_vars>>
    /\ Enter(WfMe(t), Released(WfMe(t)))

\* CancelledError at a send inside "except Exception": it propagates through finally
WfCancelledInExcept(t) ==
    /\ wf[t].pc \in {"send_error", "send_err_idle"} /\ wf[t].must_cancel
    /\ WfFinally(t, wf[t], tm[t], "cancelled")
    /\ UNCHANGED <<env_vars, turn_id, workflow_task, cancel_event, metrics, ev,
                   h, cb_pending, wire, metrics_log, hist_vars>>
    /\ Enter(WfMe(t), Released(WfMe(t)))

\* CancelledError at "await asyncio.to_thread(...)" inside append_metrics: it leaves
\* the finally block; the write may or may not have been handed to the thread
WfCancelledInAppend(t) ==
    /\ wf[t].pc = "append" /\ wf[t].must_cancel
    /\ \/ metrics_log' = Append(metrics_log, wf[t].rec)
       \/ metrics_log' = metrics_log
    /\ WfEnd(t, "cancelled")
    /\ UNCHANGED <<env_vars, sess_vars, lock, h, llm, tts, wire, hist_vars>>

\* variant of _done: the handle and the signal are cleared whatever task they hold
_doneAlways(t) ==
    /\ t \in cb_pending
    /\ cb_pending' = cb_pending \ {t}
    /\ workflow_task' = 0 /\ cancel_event' = 0
    /\ UNCHANGED <<env_vars, turn_id, metrics, ev, tm, lock, h, wf, llm, tts,
                   wire, metrics_log, hist_vars>>

\* variant of _done: the handle is cleared and the signal is left in place
_doneHandleOnly(t) ==
    /\ t \in cb_pending
    /\ cb_pending' = cb_pending \ {t}
    /\ IF workflow_task = t
       THEN workflow_task' = 0 /\ cancel_event' = cancel_event
       ELSE UNCHANGED <<workflow_task, cancel_event>>
    /\ UNCHANGED <<env_vars, turn_id, metrics, ev, tm, lock, h, wf, llm, tts,
                   wire, metrics_log, hist_vars>>

\* ws_endpoint._done, the done callback of the task
_done(t) ==
    /\ t \in cb_pending
    /\ cb_pending' = cb_pending \ {t}
    /\ IF workflow_task = t
       THEN workflow_task' = 0 /\ cancel_event' = 0
       ELSE UNCHANGED <<workflow_task, cancel_event>>
    /\ UNCHANGED <<env_vars, turn_id, metrics, ev, tm, lock, h, wf, llm, tts,
                   wire, metrics_log, hist_vars>>

\* ------------------------------------- ws_endpoint and cancel_workflow
HMe == <<"h", 0>>

\* variant of NextTurnId: only the first message of a connection advances the id
NextTurnIdReuse(old_turn) == IF old_turn = 0 THEN 1 ELSE old_turn

\* the turn id given to the message being dispatched: state.turn_id = old_turn + 1
NextTurnId(old_turn) == old_turn + 1

\* back at "raw = await ws.receive_text()"
HLoop == [HInit EXCEPT !.pc = "recv"]

\* user_text: TurnMetrics, a fresh Event and the task of the new turn
Spawn(t) ==
    /\ tm' = [tm EXCEPT ![t] = TurnMetrics]
    /\ metrics' = metrics \cup {t}
    /\ ev' = [ev EXCEPT ![t] = FALSE]
    /\ cancel_event' = t
    /\ workflow_task' = t
    /\ wf' = [wf EXCEPT ![t].pc = "created"]

\* variant of CwAfterWait: the outcome becomes cancelled whatever it was
CwAfterWaitOverwrites(tmx, m) ==
    IF m # 0 /\ tmx[m].t_interrupt_recv # 0 /\ tmx[m].t_interrupt_done = 0
    THEN [tmx EXCEPT ![m].t_interrupt_done = Stamp(@), ![m].outcome = "cancelled"]
    ELSE tmx

\* cancel_workflow after the wait: t_interrupt_done and outcome cancelled on the
\* TurnMetrics object m the routine looked up before the wait
CwAfterWait(tmx, m) ==
    IF m # 0 /\ tmx[m].t_interrupt_recv # 0 /\ tmx[m].t_interrupt_done = 0
    THEN [tmx EXCEPT ![m].t_interrupt_done = Stamp(@),
                     ![m].outcome = IF @ = "ok" THEN "cancelled" ELSE @]
    ELSE tmx

\* variant of CwBegin: task.cancel() without "await asyncio.wait_for(task, ...)",
\* so cancel_workflow goes on while the old task is still running
CwBeginNoWait(kind, old_turn, tmx) ==
    LET m    == IF old_turn \in metrics THEN old_turn ELSE 0
        tm1  == IF m # 0 /\ tmx[m].t_interrupt_recv = 0
                THEN [tmx EXCEPT ![m].t_interrupt_recv = Stamp(@)] ELSE tmx
        task == workflow_task
    IN  /\ ev' = IF cancel_event # 0 /\ ~ev[cancel_event]
                 THEN [ev EXCEPT ![cancel_event] = TRUE] ELSE ev
        /\ workflow_task' = 0
        /\ cancel_event' = 0
        /\ IF wf[task].pc # "done" THEN CancelTask(task) ELSE UNCHANGED <<wf, llm, tts>>
        /\ tm' = CwAfterWait(tm1, m)
        /\ h' = [HInit EXCEPT !.pc = "send_cancel", !.kind = kind, !.old_turn = old_turn,
                              !.new_turn = old_turn + 1, !.task = task, !.m = m]

\* cancel_workflow up to "await asyncio.wait_for(task, timeout=0.2)": the event is
\* set, t_interrupt_recv stamped, the session's handles cleared, the task cancelled.
\* tmx is the metrics table as the caller left it.
CwBegin(kind, old_turn, tmx) ==
    LET m    == IF old_turn \in metrics THEN old_turn ELSE 0
        tm1  == IF m # 0 /\ tmx[m].t_interrupt_recv = 0
                THEN [tmx EXCEPT ![m].t_interrupt_recv = Stamp(@)] ELSE tmx
        task == workflow_task
        ctx  == [HInit EXCEPT !.kind = kind, !.old_turn = old_turn,
                              !.new_turn = NextTurnId(old_turn), !.task = task, !.m = m]
    IN  /\ ev' = IF cancel_event # 0 /\ ~ev[cancel_event]
                 THEN [ev EXCEPT ![cancel_event] = TRUE] ELSE ev
        /\ workflow_task' = 0
        /\ cancel_event' = 0
        /\ IF wf[task].pc # "done"
           THEN /\ CancelTask(task)
                /\ tm' = tm1
                /\ h' = [ctx EXCEPT !.pc = "cw_wait"]
           ELSE /\ UNCHANGED <<wf, llm, tts>>
                /\ tm' = CwAfterWait(tm1, m)
                /\ h' = [ctx EXCEPT !.pc = "send_cancel"]

\* {"type": "user_text"} is read and dispatched
HRecvUserText ==
    /\ h.pc = "recv" /\ chan = "open" /\ n_msgs < budget.msgs
    /\ n_msgs' = n_msgs + 1
    /\ n_turn_msgs' = n_turn_msgs + 1
    /\ turn_id' = NextTurnId(turn_id)
    /\ IF workflow_task # 0
       THEN CwBegin("user_text", turn_id, tm) /\ metrics' = metrics
       ELSE Spawn(NextTurnId(turn_id)) /\ UNCHANGED <<h, llm, tts>>
    /\ UNCHANGED <<crag_vars, AUTO_LANG, budget, chan, n_deltas, n_chunks, cb_pending, wire, metrics_log,
                   exc_at, got_chunk, interrupted>>
    /\ Enter(HMe, lock)

\* {"type": "interrupt"} is read and dispatched
HRecvInterrupt ==
    /\ h.pc = "recv" /\ chan = "open" /\ n_msgs < budget.msgs
    /\ n_msgs' = n_msgs + 1
    /\ n_turn_msgs' = n_turn_msgs + 1
    /\ turn_id' = NextTurnId(turn_id)
    /\ IF workflow_task # 0
       THEN /\ CwBegin("interrupt", turn_id,
                       IF turn_id \in metrics /\ tm[turn_id].t_interrupt_recv = 0
                       THEN [tm EXCEPT ![turn_id].t_interrupt_recv = Stamp(@)] ELSE tm)
            /\ interrupted' = interrupted \cup {workflow_task}
       ELSE /\ h' = [HInit EXCEPT !.pc = "send_cancel", !.kind = "interrupt",
                                  !.old_turn = turn_id, !.new_turn = NextTurnId(turn_id)]
            /\ UNCHANGED <<workflow_task, cancel_event, ev, tm, wf, llm, tts, interrupted>>
    /\ UNCHANGED <<crag_vars, AUTO_LANG, budget, chan, n_deltas, n_chunks, metrics, cb_pending, wire, metrics_log,
                   exc_at, got_chunk>>
    /\ Enter(HMe, lock)

\* a dispatch that advances the turn id for a message of any other type as well
HRecvUnknownNewTurn ==
    /\ h.pc = "recv" /\ chan = "open" /\ n_msgs < budget.msgs
    /\ n_msgs' = n_msgs + 1
    /\ turn_id' = NextTurnId(turn_id)
    /\ h' = [HInit EXCEPT !.pc = "send_unk_err"]
    /\ UNCHANGED <<crag_vars, AUTO_LANG, budget, chan, n_deltas, n_chunks, workflow_task, cancel_event,
                   metrics, ev, tm, task_vars, wire, metrics_log, hist_vars>>
    /\ Enter(HMe, lock)

\* a message of any other type is read
HRecvUnknown ==
    /\ h.pc = "recv" /\ chan = "open" /\ n_msgs < budget.msgs
    /\ n_msgs' = n_msgs + 1
    /\ h' = [HInit EXCEPT !.pc = "send_unk_err"]
    /\ UNCHANGED <<crag_vars, AUTO_LANG, budget, chan, n_deltas, n_chunks, sess_vars, task_vars, wire, metrics_log, hist_vars>>
    /\ Enter(HMe, lock)

\* a text frame that is not JSON is read: json.loads raises JSONDecodeError, which
\* no except clause of ws_endpoint catches
HRecvBadJson ==
    /\ h.pc = "recv" /\ chan = "open" /\ n_msgs < budget.msgs
    /\ n_msgs' = n_msgs + 1
    /\ h' = [HInit EXCEPT !.pc = "dead", !.exc = "JSONDecodeError"]
    /\ UNCHANGED <<crag_vars, AUTO_LANG, budget, chan, n_deltas, n_chunks, sess_vars, lock, task_vars, wire, metrics_log, hist_vars>>

\* an "except WebSocketDisconnect" clause that leaves the turn alone
CleanupLeavesTurn ==
    /\ UNCHANGED <<ev, wf, llm, tts>>
    /\ h' = [HInit EXCEPT !.pc = "closed", !.exc = "WebSocketDisconnect"]

\* "except WebSocketDisconnect": the event is set and the task cancelled
Cleanup ==
    /\ ev' = IF cancel_event # 0 /\ ~ev[cancel_event]
             THEN [ev EXCEPT ![cancel_event] = TRUE] ELSE ev
    /\ IF workflow_task # 0 THEN CancelTask(workflow_task) ELSE UNCHANGED <<wf, llm, tts>>
    /\ h' = [HInit EXCEPT !.pc = "closed", !.exc = "WebSocketDisconnect"]

\* receive_text raises WebSocketDisconnect: the peer is gone
HDisconnect ==
    /\ h.pc = "recv"
    /\ chan' = "closed"
    /\ Cleanup
    /\ UNCHANGED <<crag_vars, AUTO_LANG, budget, n_msgs, n_deltas, n_chunks, turn_id, workflow_task, cancel_event,
                   metrics, tm, lock, cb_pending, wire, metrics_log, hist_vars>>

\* wait_for returns or raises because the task is done.  A cancelled task makes
\* wait_for raise CancelledError, which "except Exception" does not catch; after a
\* timeout the CancelledError is turned into TimeoutError, which it does catch
HCwDone ==
    /\ h.pc = "cw_wait" /\ wf[h.task].pc = "done"
    /\ IF ~h.timed_out /\ wf[h.task].result = "cancelled"
       THEN /\ h' = [h EXCEPT !.pc = "dead", !.exc = "CancelledError"]
            /\ tm' = tm
       ELSE /\ h' = [h EXCEPT !.pc = "send_cancel"]
            /\ tm' = CwAfterWait(tm, h.m)
    /\ UNCHANGED <<env_vars, turn_id, workflow_task, cancel_event, metrics, ev,
                   task_vars, wire, metrics_log, hist_vars>>
    /\ Enter(HMe, lock)

\* the 200 ms of wait_for pass with the task not done: wait_for cancels the task
\* again and keeps waiting until it is done
HCwTimeout ==
    /\ h.pc = "cw_wait" /\ ~h.timed_out /\ wf[h.task].pc # "done"
    /\ CancelTask(h.task)
    /\ h' = [h EXCEPT !.timed_out = TRUE]
    /\ UNCHANGED <<env_vars, sess_vars, lock, cb_pending, wire, metrics_log,
                   hist_vars>>

HAcquire ==
    /\ h.pc \in HSend
    /\ Acquire(HMe)
    /\ UNCHANGED <<env_vars, sess_vars, h, task_vars, wire, metrics_log, hist_vars>>

\* safe_send_json(audio_cancel{old_turn}); user_text then creates the new turn,
\* interrupt goes on to state_update(idle)
HSendCancel ==
    /\ h.pc = "send_cancel"
    /\ \/ Transmit(HMe, Frame("audio_cancel", h.old_turn, "-", -1, <<>>))
       \/ TransmitFails(HMe)
    /\ IF h.kind = "user_text"
       THEN Spawn(turn_id) /\ h' = HLoop
       ELSE h' = [h EXCEPT !.pc = "send_int_idle"]
            /\ UNCHANGED <<workflow_task, cancel_event, metrics, ev, tm, wf>>
    /\ UNCHANGED <<cnt_vars, turn_id, llm, tts, cb_pending, metrics_log, hist_vars>>
    /\ Enter(HMe, NoOwner)

\* a send_json of the handler on a closed channel raises: WebSocketDisconnect is
\* handled by the except clause, any other exception leaves ws_endpoint
HSendRaises ==
    /\ TransmitFails(HMe)
    /\ \/ Cleanup
       \/ h' = [HInit EXCEPT !.pc = "dead", !.exc = "SendError"] /\ UNCHANGED <<ev, wf, llm, tts>>

\* interrupt: state_update(idle) under the new turn id
HSendIntIdle ==
    /\ h.pc = "send_int_idle"
    /\ \/ /\ Transmit(HMe, Frame("state_update", h.new_turn, "idle", -1, <<>>))
          /\ h' = HLoop
          /\ UNCHANGED <<ev, wf, llm, tts>>
       \/ HSendRaises
    /\ UNCHANGED <<cnt_vars, turn_id, workflow_task, cancel_event, metrics, tm,
                   cb_pending, metrics_log, hist_vars>>
    /\ Enter(HMe, NoOwner)

\* unknown type: the error frame under the current turn id
HSendUnkErr ==
    /\ h.pc = "send_unk_err"
    /\ \/ /\ Transmit(HMe, Frame("error", turn_id, "unknown type", -1, <<>>))
          /\ h' = HLoop
          /\ UNCHANGED <<ev, wf, llm, tts>>
       \/ HSendRaises
    /\ UNCHANGED <<cnt_vars, turn_id, workflow_task, cancel_event, metrics, tm,
                   cb_pending, metrics_log, hist_vars>>
    /\ Enter(HMe, NoOwner)

\* ----------------------------------------------------------- specification
Next ==
    \/ HRecvUserText \/ HRecvInterrupt \/ HRecvUnknown \/ HRecvBadJson \/ HDisconnect
    \/ HCwDone \/ HCwTimeout \/ HAcquire \/ HSendCancel \/ HSendIntIdle \/ HSendUnkErr
    \/ \E t \in Turns :
         \/ WfStart(t) \/ WfCancelledBeforeStart(t) \/ WfAwaitLlm(t) \/ WfAwaitTts(t)
         \/ WfAcquire(t) \/ WfSendIdle(t) \/ WfSendError(t) \/ WfSendErrIdle(t)
         \/ WfFinAwait(t) \/ WfAppend(t)
         \/ WfCancelledInTry(t) \/ WfCancelledInExcept(t) \/ WfCancelledInAppend(t)
         \/ _done(t)
         \/ LlmStart(t) \/ LlmAcquire(t) \/ LlmSendThinking(t) \/ LlmDelta(t)
         \/ LlmStreamEnd(t) \/ LlmGenRaises(t) \/ LlmSendDelta(t) \/ LlmSendFinal(t)
         \/ LlmCancelled(t)
         \/ TtsStart(t) \/ TtsDecided(t) \/ TtsQueueGet(t) \/ TtsAcquire(t)
         \/ TtsSendSpeaking(t) \/ TtsSendBegin(t) \/ TtsChunk(t) \/ TtsStreamEnd(t)
         \/ TtsSynthRaises(t) \/ TtsSendAud(t) \/ TtsSendEnd(t) \/ TtsCancelled(t)

Spec == Init /\ [][Next]_vars

\* the steps the program takes by itself: everything but the arrival of a message
\* and the loss of the peer.  The event loop runs every task that is ready, the
\* streams of the generator and the synthesizer are finite, send_lock serves its
\* waiters and the 200 ms of wait_for pass: a step that can be taken is taken.
Steps ==
    \/ HCwDone \/ HCwTimeout \/ HAcquire \/ HSendCancel \/ HSendIntIdle \/ HSendUnkErr
    \/ \E t \in Turns :
         \/ WfStart(t) \/ WfCancelledBeforeStart(t) \/ WfAwaitLlm(t) \/ WfAwaitTts(t)
         \/ WfAcquire(t) \/ WfSendIdle(t) \/ WfSendError(t) \/ WfSendErrIdle(t)
         \/ WfFinAwait(t) \/ WfAppend(t)
         \/ WfCancelledInTry(t) \/ WfCancelledInExcept(t) \/ WfCancelledInAppend(t)
         \/ _done(t)
         \/ LlmStart(t) \/ LlmAcquire(t) \/ LlmSendThinking(t) \/ LlmDelta(t)
         \/ LlmStreamEnd(t) \/ LlmGenRaises(t) \/ LlmSendDelta(t) \/ LlmSendFinal(t)
         \/ LlmCancelled(t)
         \/ TtsStart(t) \/ TtsDecided(t) \/ TtsQueueGet(t) \/ TtsAcquire(t)
         \/ TtsSendSpeaking(t) \/ TtsSendBegin(t) \/ TtsChunk(t) \/ TtsStreamEnd(t)
         \/ TtsSynthRaises(t) \/ TtsSendAud(t) \/ TtsSendEnd(t) \/ TtsCancelled(t)

\* a connection whose peer opens with a user_text, sends interrupts after it, or
\* goes away
NextInterrupted ==
    \/ (n_msgs = 0 /\ HRecvUserText) \/ HRecvInterrupt \/ HDisconnect
    \/ HCwDone \/ HCwTimeout \/ HSendCancel \/ HSendIntIdle
    \/ \E t \in Turns :
         \/ WfStart(t) \/ WfCancelledBeforeStart(t) \/ WfAwaitLlm(t) \/ WfAwaitTts(t)
         \/ WfAcquire(t) \/ WfSendIdle(t) \/ WfSendError(t) \/ WfSendErrIdle(t)
         \/ WfFinAwait(t) \/ WfAppend(t)
         \/ WfCancelledInTry(t) \/ WfCancelledInExcept(t) \/ WfCancelledInAppend(t)
         \/ _done(t)
         \/ LlmStart(t) \/ LlmAcquire(t) \/ LlmSendThinking(t) \/ LlmDelta(t)
         \/ LlmStreamEnd(t) \/ LlmGenRaises(t) \/ LlmSendDelta(t) \/ LlmSendFinal(t)
         \/ LlmCancelled(t)
         \/ TtsStart(t) \/ TtsDecided(t) \/ TtsQueueGet(t) \/ TtsAcquire(t)
         \/ TtsSendSpeaking(t) \/ TtsSendBegin(t) \/ TtsChunk(t) \/ TtsStreamEnd(t)
         \/ TtsSynthRaises(t) \/ TtsSendAud(t) \/ TtsSendEnd(t) \/ TtsCancelled(t)

FairSpec == Init /\ [][NextInterrupted]_vars /\ WF_vars(Steps)

\* the steps of a connection on which one user_text arrives: the turn it starts
\* runs to its end, or is cut short by the peer going away
NextOneTurn ==
    \/ HRecvUserText \/ HDisconnect
    \/ \E t \in Turns :
         \/ WfStart(t) \/ WfCancelledBeforeStart(t) \/ WfAwaitLlm(t) \/ WfAwaitTts(t)
         \/ WfAcquire(t) \/ WfSendIdle(t) \/ WfSendError(t) \/ WfSendErrIdle(t)
         \/ WfFinAwait(t) \/ WfAppend(t)
         \/ WfCancelledInTry(t) \/ WfCancelledInExcept(t) \/ WfCancelledInAppend(t)
         \/ _done(t)
         \/ LlmStart(t) \/ LlmAcquire(t) \/ LlmSendThinking(t) \/ LlmDelta(t)
         \/ LlmStreamEnd(t) \/ LlmGenRaises(t) \/ LlmSendDelta(t) \/ LlmSendFinal(t)
         \/ LlmCancelled(t)
         \/ TtsStart(t) \/ TtsDecided(t) \/ TtsQueueGet(t) \/ TtsAcquire(t)
         \/ TtsSendSpeaking(t) \/ TtsSendBegin(t) \/ TtsChunk(t) \/ TtsStreamEnd(t)
         \/ TtsSynthRaises(t) \/ TtsSendAud(t) \/ TtsSendEnd(t) \/ TtsCancelled(t)

SpecOneTurn == InitOneTurn /\ [][NextOneTurn]_vars

\* -------------------------------------------------------------- properties
\* indices of the frames of a type and a turn on the wire
FramesOf(type, t) == {i \in 1..Len(wire) : wire[i].type = type /\ wire[i].turn_id = t}

\* indices of the state_update frames of a turn that announce a state
StateFrames(state, t) == {i \in FramesOf("state_update", t) : wire[i].state = state}

\* indices of the metrics records of a turn
RecordsOf(t) == {i \in 1..Len(metrics_log) : metrics_log[i].turn_id = t}

\* the tasks run_turn_workflow that are not finished
Unfinished == {t \in Turns : wf[t].pc \notin {"none", "done"}}

\* audio of turn t had begun, and had not ended, while t was still the session's turn
MidSpeech(t) ==
    /\ \E i \in FramesOf("audio_begin", t) : wire[i].sess = t
    /\ \A i \in FramesOf("audio_end", t) : wire[i].sess # t

\* the frames of turn t that follow the frame at index i
After(i, t) == {j \in (i + 1)..Len(wire) : wire[j].turn_id = t}

\* C1: every frame other than audio_cancel is written while the session turn id
\* still equals the frame's turn id: a superseded turn emits no further frame.
C1_NoFrameAfterSupersede ==
    \A i \in 1..Len(wire) :
        wire[i].type # "audio_cancel" => wire[i].turn_id = wire[i].sess

\* C2: pre-empting a turn that is under way (its state_update(thinking) is out)
\* never ends the connection handler: ws_endpoint is not left by the CancelledError
\* of the task of the turn it has just superseded, which is turn_id - 1.
C2_PreemptKeepsSession ==
    h.exc = "CancelledError" => StateFrames("thinking", turn_id - 1) = {}

\* C3: a text frame that is not JSON never ends the connection handler: ws_endpoint
\* is never left by a JSONDecodeError.
C3_BadJsonKeepsSession == h.exc # "JSONDecodeError"

\* C4: at every instant at most one run_turn_workflow task is unfinished.
C4_AtMostOneActive == Cardinality(Unfinished) <= 1

\* C4 witness: the task of turn 1 was cancelled by a superseding user_text, wrote
\* its record and is done, audio_cancel{1} went out and the task of turn 2 runs.
C4_Witness ==
    /\ wf[1].pc = "done"
    /\ wf[2].pc \notin {"none", "done"}
    /\ FramesOf("audio_cancel", 1) # {}
    /\ \E i \in RecordsOf(1) : metrics_log[i].outcome = "cancelled"

\* C5: the session turn id is the number of user_text and interrupt messages
\* dispatched so far: it starts at 0, each of them adds exactly 1, nothing else
\* writes it; and a task exists only for ids up to the session turn id.
C5_TurnIdCounts ==
    /\ turn_id = n_turn_msgs
    /\ \A t \in Turns : wf[t].pc # "none" => t <= turn_id

\* C5 witness: two interrupts were dispatched with no turn active, and the id is 2.
C5_Witness ==
    /\ turn_id = 2
    /\ \A t \in Turns : wf[t].pc = "none"
    /\ FramesOf("audio_cancel", 0) # {} /\ FramesOf("audio_cancel", 1) # {}

\* C6: audio_end{N} is on the wire at most once, and only after an AUD0{N}; stated
\* for the turns in which neither the generator nor a synthesizer raised.
C6_AudioEndAfterAud0 ==
    \A t \in Turns :
        exc_at[t] = -1 =>
            /\ Cardinality(FramesOf("audio_end", t)) <= 1
            /\ \A i \in FramesOf("audio_end", t) : \E j \in FramesOf("AUD0", t) : j < i

\* C7: state_update(speaking) and audio_begin of a turn are sent only after the
\* synthesizer has yielded a PCM chunk for that turn.
C7_ProbeBeforeBegin ==
    \A t \in Turns :
        StateFrames("speaking", t) \cup FramesOf("audio_begin", t) # {} => t \in got_chunk

\* C8: no audio_end of a turn is sent after the generator or a synthesizer of that
\* turn has raised.
C8_NoAudioEndAfterException ==
    \A t \in Turns :
        exc_at[t] # -1 => \A i \in FramesOf("audio_end", t) : i <= exc_at[t]

\* C9: a run_turn_workflow task that was started (its state_update(thinking) is
\* out) and is done has stamped t_done, appended exactly one metrics record and
\* removed its entry from the session.
C9_FinallyCompletes ==
    \A t \in Turns :
        wf[t].pc = "done" /\ StateFrames("thinking", t) # {} =>
            /\ tm[t].t_done # 0
            /\ Cardinality(RecordsOf(t)) = 1
            /\ t \notin metrics

\* C10: the metrics record of a turn that was interrupted mid-speech (and in which
\* no adapter raised) has outcome cancelled and a non-null interrupt_ms.
C10_InterruptRecorded ==
    \A i \in 1..Len(metrics_log) :
        LET t == metrics_log[i].turn_id
        IN  t \in interrupted /\ MidSpeech(t) /\ exc_at[t] = -1 =>
                /\ metrics_log[i].outcome = "cancelled"
                /\ metrics_log[i].t_interrupt_ms = "int"

\* C11: no audio_end{N} is written once the cancel_event of turn N is set, and no
\* AUD0{N} or audio_end{N} follows audio_cancel{N} on the wire.
C11_NoAudioEndOnceCancelled ==
    /\ \A i \in 1..Len(wire) : wire[i].type = "audio_end" => ~wire[i].cancelled
    /\ \A t \in Turns : \A i \in FramesOf("audio_cancel", t) :
           \A j \in After(i, t) : wire[j].type \notin {"AUD0", "audio_end"}

\* the turn of a user_text that ran to its end without being superseded, on a
\* channel that stayed open, the handler being back at receive_text
Completed(t) ==
    /\ wf[t].pc = "done" /\ t \notin cb_pending
    /\ turn_id = t /\ h.pc = "recv" /\ chan = "open"

\* a frame of the given type for turn t is followed by a state_update(idle)
EndsWith(type, t) ==
    \E i \in FramesOf(type, t) : \E j \in (i + 1)..Len(wire) :
        wire[j].type = "state_update" /\ wire[j].state = "idle"

\* the closing patterns among audio_end, audio_cancel and error that turn t shows
Endings(t) == {type \in {"audio_end", "audio_cancel", "error"} : EndsWith(type, t)}

\* C12: a turn that was not superseded ends in exactly one of audio_end then idle,
\* audio_cancel then idle, error then idle: never in two of them, never in none.
C12_ExactlyOneEnding ==
    \A t \in Turns : Completed(t) => Cardinality(Endings(t)) = 1

\* the place of a frame in the order thinking, assistant_delta, assistant_final,
\* speaking, audio_begin, AUD0, audio_end, idle
Rank(f) ==
    CASE f.type = "state_update" /\ f.state = "thinking" -> 1
      [] f.type = "assistant_delta"                       -> 2
      [] f.type = "assistant_final"                       -> 3
      [] f.type = "state_update" /\ f.state = "speaking" -> 4
      [] f.type = "audio_begin"                           -> 5
      [] f.type = "AUD0"                                  -> 6
      [] f.type = "audio_end"                             -> 7
      [] f.type = "state_update" /\ f.state = "idle"     -> 8
      [] OTHER                                            -> 0

\* the frames of the text stream, and those of the audio stream, by rank; thinking
\* opens both and idle closes both
TextRanks  == {1, 2, 3, 8}
AudioRanks == {1, 4, 5, 6, 7, 8}

\* the frames of turn t whose rank is in ranks are on the wire in rank order
InOrder(t, ranks) ==
    \A i, j \in 1..Len(wire) :
        /\ i < j /\ wire[i].turn_id = t /\ wire[j].turn_id = t
        /\ Rank(wire[i]) \in ranks /\ Rank(wire[j]) \in ranks
        => Rank(wire[i]) <= Rank(wire[j])

C14_IdleIsLast ==
    \A t \in Turns : StateFrames("thinking", t) # {} =>
        \A i \in StateFrames("idle", t) : \A j \in After(i, t) :
            \/ wire[j].type \notin {"audio_end", "AUD0", "assistant_delta",
                                     "assistant_final", "error"}
            \/ wire[j].type = "error" /\ wire[j].state = "unknown type"

\* the texts of the assistant_delta frames of turn t among the first n frames on
\* the wire, concatenated in the order they were written
RECURSIVE SentText(_, _)
SentText(t, n) ==
    IF n = 0 THEN <<>>
    ELSE SentText(t, n - 1) \o
         (IF wire[n].type = "assistant_delta" /\ wire[n].turn_id = t THEN wire[n].text ELSE <<>>)

\* C15: in a turn, thinking precedes every assistant_delta; no assistant_delta is
\* empty; assistant_final follows every assistant_delta and precedes idle; and its
\* text is the concatenation of the deltas sent as assistant_delta.
C15_FinalIsSumOfDeltas ==
    \A t \in Turns :
        /\ \A i \in FramesOf("assistant_delta", t) :
               /\ wire[i].text # <<>>
               /\ \E k \in StateFrames("thinking", t) : k < i
        /\ \A f \in FramesOf("assistant_final", t) :
               /\ \A i \in FramesOf("assistant_delta", t) : i < f
               /\ \A j \in StateFrames("idle", t) : f < j
               /\ wire[f].text = SentText(t, Len(wire))

\* C15 witness: the generator yielded two non-empty deltas, both were sent, and
\* assistant_final and idle followed
C15_Witness ==
    /\ Cardinality(FramesOf("assistant_delta", 1)) = 2
    /\ \E f \in FramesOf("assistant_final", 1) :
           /\ \A i \in FramesOf("assistant_delta", 1) : Len(wire[f].text) > Len(wire[i].text)
           /\ \E j \in StateFrames("idle", 1) : f < j

\* C16: every AUD0{N} on the wire is preceded by an audio_begin{N}, and
\* audio_begin{N} is on the wire at most once.
C16_BeginOnceBeforeAud0 ==
    \A t \in Turns :
        /\ \A i \in FramesOf("AUD0", t) : \E k \in FramesOf("audio_begin", t) : k < i
        /\ Cardinality(FramesOf("audio_begin", t)) <= 1

\* C16 witness: two segments were queued and popped, tts_worker is streaming the
\* second, two AUD0 frames are out and audio_begin went out once
C16_Witness ==
    /\ llm[1].seg_id = 2 /\ wf[1].tts_queue = <<>> /\ tts[1].pc = "stream_next"
    /\ Cardinality(FramesOf("AUD0", 1)) = 2
    /\ Cardinality(FramesOf("audio_begin", 1)) = 1

\* C17: the AUD0 frames transmitted for a turn carry the sequence numbers 0, 1,
\* 2, ... in transmission order: each carries the number of AUD0 frames of the
\* turn transmitted before it.
C17_SeqDense ==
    \A t \in Turns : \A i \in FramesOf("AUD0", t) :
        wire[i].seq = Cardinality({k \in FramesOf("AUD0", t) : k < i})

\* C17 witness: a turn ended with audio_end and idle after two AUD0 frames,
\* numbered 0 and 1, with an assistant_delta written between them
C17_Witness ==
    /\ FramesOf("audio_end", 1) # {} /\ StateFrames("idle", 1) # {}
    /\ \E i, j \in FramesOf("AUD0", 1) :
           /\ wire[i].seq = 0 /\ wire[j].seq = 1
           /\ \E k \in FramesOf("assistant_delta", 1) : i < k /\ k < j

\* the handler is not inside a dispatch, and the channel is open
Settled == h.pc \in {"recv", "dead"} /\ chan = "open"

\* C18: once the handler is through with an interrupt that came in while turn N
\* was active (its state_update(thinking) out), audio_cancel{N} is on the wire
\* followed by state_update{N + 1, idle};
\* the same two frames, in that order, answer an interrupt that finds no turn
\* active; and no run_turn_workflow task is created for the id of an interrupt.
C18_InterruptCancelsThenIdles ==
    /\ \A t \in interrupted : Settled /\ StateFrames("thinking", t) # {} =>
           \E i \in FramesOf("audio_cancel", t) : \E j \in StateFrames("idle", t + 1) : i < j
    /\ \A t \in Turns : wf[t].pc = "none" =>
           \A j \in StateFrames("idle", t) : \E i \in FramesOf("audio_cancel", t - 1) : i < j
    /\ \A t \in interrupted : t + 1 \in Turns => wf[t + 1].pc = "none"

\* C19: a user_text that comes in while turn N is under way (thinking{N} out) is
\* carried through by the handler, which goes on to audio_cancel{N} and to
\* starting turn N + 1; audio_cancel{N} precedes every frame of turn N + 1; and no
\* frame written by the tasks of turn N follows a frame of turn N + 1.
C19_SupersedeHandsOver ==
    /\ h.kind = "user_text" /\ StateFrames("thinking", h.old_turn) # {} => h.pc # "dead"
    /\ \A t \in Turns : \A j \in 1..Len(wire) : wire[j].turn_id = t + 1 =>
           /\ \A i \in FramesOf("audio_cancel", t) : i < j
           /\ \A i \in After(j, t) : wire[i].type = "audio_cancel"

\* nothing is left to run: every task is finished and its callback has run, the
\* handler is not inside a dispatch, and the channel is open
Quiescent ==
    /\ Settled /\ cb_pending = {}
    /\ \A t \in Turns : /\ wf[t].pc \in {"none", "done"}
                        /\ llm[t].pc \in {"none", "done"}
                        /\ tts[t].pc \in {"none", "done"}

\* the state announced by the last state_update on the wire (idle if there is none)
LastState ==
    LET S == {i \in 1..Len(wire) : wire[i].type = "state_update"}
    IN  IF S = {} THEN "idle"
        ELSE wire[CHOOSE i \in S : \A k \in S : k <= i].state

\* C20: when only user_text and interrupt messages were received and nothing is
\* left to run on the open channel, no turn is active and the last state_update
\* on the wire is idle.
C20_QuiescentIsIdle ==
    Quiescent /\ n_msgs = n_turn_msgs => workflow_task = 0 /\ LastState = "idle"

\* the three tasks of turn t are finished (or turn t never started)
Finished(t) ==
    /\ wf[t].pc \in {"none", "done"}
    /\ llm[t].pc \in {"none", "done"}
    /\ tts[t].pc \in {"none", "done"}

\* C21 witness: with auto-language on, turn 1 is cancelled, llm_worker has left
\* without a language decision, and tts_worker, suspended at decided_event.wait(),
\* has been cancelled by the finally block of run_turn_workflow
C21_Witness ==
    /\ AUTO_LANG /\ ev[1] /\ ~wf[1].decided_event
    /\ llm[1].pc = "done"
    /\ wf[1].pc = "fin_await" /\ wf[1].fin_target = "tts"
    /\ tts[1].pc = "wait_decided" /\ tts[1].must_cancel

\* C21: once the cancel_event of a turn is set, run_turn_workflow, llm_worker and
\* tts_worker of the turn all finish: no worker stays at decided_event.wait(), at
\* tts_queue.get() or anywhere else for ever.
C21_CancelledTurnTerminates == \A t \in Turns : ev[t] ~> Finished(t)

\* a CancelledError is on its way into a task of turn t
CancelPending(t) == wf[t].must_cancel \/ llm[t].must_cancel \/ tts[t].must_cancel

\* C22: the step in which the handler learns of the disconnect sets the cancel_event
\* of the active turn and cancels its task; from then on nothing is added to the
\* wire and no coroutine starts a frame write.
C22_DisconnectIsSilent ==
    [][/\ h.pc # "closed" /\ h'.pc = "closed" /\ workflow_task # 0
          /\ wf[workflow_task].pc # "done"
          => ev'[cancel_event] /\ CancelPending(workflow_task)'
       /\ h.pc = "closed" => wire' = wire /\ Senders' \subseteq Senders]_vars

\* C22 witness: the peer went away while turn 1 was speaking; the turn is cancelled
\* and finished, and neither audio_end, audio_cancel, idle nor error was written
C22_Witness ==
    /\ h.pc = "closed" /\ ev[1] /\ Finished(1) /\ exc_at[1] = -1
    /\ FramesOf("AUD0", 1) # {}
    /\ \A i \in 1..Len(wire) :
           /\ wire[i].type \notin {"audio_end", "audio_cancel", "error"}
           /\ wire[i].type = "state_update" => wire[i].state # "idle"

\* the frame at the end of the wire is the error frame for an unknown type, t its turn id
AnswersUnknown(w, t) ==
    /\ w[Len(w)].type = "error" /\ w[Len(w)].state = "unknown type"
    /\ w[Len(w)].turn_id = t

\* C23: reading a message of an unknown type changes nothing of the session and
\* of the tasks and writes nothing; the send that follows, on a channel that stays
\* open, adds exactly one frame, error with the current turn id and the text
\* "unknown type: ...", returns to receive_text and again changes nothing of the
\* session (turn id, workflow task, cancel event, metrics) and of the tasks.
C23_UnknownOnlyAnswers ==
    [][/\ h.pc = "recv" /\ h'.pc = "send_unk_err"
          => UNCHANGED <<sess_vars, task_vars, wire>>
       /\ h.pc = "send_unk_err" /\ h'.pc # "send_unk_err" /\ chan' = "open"
          => /\ h'.pc = "recv"
             /\ Len(wire') = Len(wire) + 1 /\ SubSeq(wire', 1, Len(wire)) = wire
             /\ AnswersUnknown(wire', turn_id)
             /\ UNCHANGED <<sess_vars, task_vars>>]_vars

\* C23 witness: a message of unknown type came in during turn 1; its error frame
\* is on the wire, and turn 1 ran on to assistant_final and idle
C23_Witness ==
    /\ h.pc = "recv" /\ turn_id = 1 /\ Completed(1)
    /\ \E i \in FramesOf("error", 1) :
           /\ wire[i].state = "unknown type"
           /\ \E k \in StateFrames("thinking", 1) : k < i
           /\ \E j \in FramesOf("assistant_final", 1) : i < j
           /\ \E j \in StateFrames("idle", 1) : i < j
    /\ Cardinality(FramesOf("error", 1)) = 1

\* C24: a frame write of llm_worker, tts_worker or run_turn_workflow that fails
\* (the step finds the channel broken, the handler not being the one that steps)
\* sets the cancel_event of the turn, for a control frame as for an AUD0 frame.
C24_FailedWriteSetsSignal ==
    [][\A t \in Turns :
          /\ chan = "open" /\ chan' = "closed" /\ h' = h
          /\ lock \in {LlmMe(t), TtsMe(t), WfMe(t)}
          => ev'[t]]_vars

\* the coroutine c is inside send_json / safe_send_json / safe_send_bytes
AtSend(c) ==
    \/ c[1] = "llm" /\ c[2] \in Turns /\ llm[c[2]].pc \in LlmSend
    \/ c[1] = "tts" /\ c[2] \in Turns /\ tts[c[2]].pc \in TtsSend
    \/ c[1] = "wf" /\ c[2] \in Turns /\ wf[c[2]].pc \in WfSend
    \/ c = HMe /\ h.pc \in HSend

\* the coroutines of a connection: the handler and the three tasks of each turn
Coroutines == {HMe} \cup ({"llm", "tts", "wf"} \X Turns)

\* the local state of coroutine c
Locals(c) ==
    IF c[1] = "llm" THEN llm[c[2]]
    ELSE IF c[1] = "tts" THEN tts[c[2]]
    ELSE IF c[1] = "wf" THEN wf[c[2]]
    ELSE h

\* a state where three coroutines are inside a send at once: tts_worker writes an
\* AUD0 frame under the lock while llm_worker (at assistant_final) and the handler
\* wait for it
C25_Witness ==
    /\ lock = TtsMe(1) /\ tts[1].pc = "send_aud"
    /\ llm[1].pc = "send_final" /\ ~llm[1].must_cancel
    /\ h.pc \in HSend
    /\ FramesOf("audio_begin", 1) # {}

\* C25: every frame is written by a coroutine that is inside one of the three send
\* helpers and holds the connection's lock; the lock is held only by a coroutine
\* inside a helper and passes from a holder only by a step of that holder, so two
\* writes are never in progress together; the first frame of a connection is hello.
C25_WritesUnderLock ==
    [][/\ wire' # wire
          => /\ lock # NoOwner /\ AtSend(lock)
             /\ Len(wire') = Len(wire) + 1
             /\ SubSeq(wire', 1, Len(wire)) = wire
       /\ \A c \in Coroutines :
             lock = c /\ (lock' # c \/ wire' # wire) => Locals(c)' # Locals(c)
       /\ lock' # NoOwner => AtSend(lock)'
       /\ wire'[1].type = "hello"]_vars

\* the positions of tts_worker inside its "while True" loop and its finally block
TtsLoop == {"queue_get", "send_speaking", "send_begin", "stream_next", "send_aud", "send_end"}

\* a turn in auto-language mode whose first sentence is English and whose second is
\* Chinese: audio_begin announced the English voice, the first segment has been
\* played and a chunk of the Chinese segment is about to be written
C26_Witness ==
    /\ AUTO_LANG /\ wf[1].decided /\ wf[1].chosen_tts = "en"
    /\ \E i \in FramesOf("audio_begin", 1) : wire[i].state = "en"
    /\ \E i \in FramesOf("AUD0", 1) : wire[i].seq = 0
    /\ tts[1].pc = "send_aud" /\ tts[1].seg_text[1] = 20013 /\ wf[1].tts_seq = 1

\* C26: in auto-language mode, as long as the language is undecided no segment is
\* on the TTS queue (the end-of-stream tail included) and tts_worker has not entered
\* its loop; while tts_worker is in its loop the chosen voice does not change; and
\* the voice announced in audio_begin is the chosen voice.
C26_DecideThenSpeak ==
    [][\A t \in Turns :
          /\ AUTO_LANG /\ ~wf'[t].decided
             => /\ \A i \in 1..Len(wf'[t].tts_queue) : wf'[t].tts_queue[i] = QueueEnd
                /\ tts'[t].pc \notin TtsLoop
          /\ tts[t].pc \in TtsLoop => wf'[t].chosen_tts = wf[t].chosen_tts
          /\ \A i \in 1..Len(wire') :
                wire'[i].type = "audio_begin" /\ wire'[i].turn_id = t
                => wire'[i].state = wf'[t].chosen_tts]_vars

\* a turn in auto-language mode decided English on its first sentence; the second
\* delta was Chinese, the stream has ended and assistant_final carries both
C27_Witness ==
    /\ AUTO_LANG /\ wf[1].decided_event /\ wf[1].chosen_tts = "en"
    /\ Len(wf[1].sample_buf) = 30
    /\ \E i \in FramesOf("assistant_final", 1) :
          Len(wire[i].text) = 60 /\ wire[i].text[1] = 97 /\ wire[i].text[31] = 20013

\* C27 as stated, for every turn: when the generator stream of a turn ends and the
\* turn is not cancelled the decision event is set; the event, once set, stays set
\* and the chosen voice no longer changes.
C27_LatchEveryTurn ==
    [][\A t \in Turns :
          /\ llm[t].pc = "gen_next" /\ llm'[t].pc = "send_final" => wf'[t].decided_event
          /\ wf[t].decided_event
             => wf'[t].decided_event /\ wf'[t].chosen_tts = wf[t].chosen_tts]_vars

\* C27, in auto-language mode: when the generator stream of a turn ends and the turn
\* is not cancelled the decision event is set; it is set in the one step that sets
\* "decided", and from then on the event, the sample and the chosen voice of the
\* turn do not change, whatever the later deltas are.
C27_LatchedOnce ==
    [][\A t \in Turns :
          /\ AUTO_LANG /\ llm[t].pc = "gen_next" /\ llm'[t].pc = "send_final"
             => wf'[t].decided_event
          /\ wf'[t].decided_event = wf'[t].decided
          /\ wf[t].decided_event
             => /\ wf'[t].decided_event
                /\ wf'[t].chosen_tts = wf[t].chosen_tts
                /\ wf'[t].sample_buf = wf[t].sample_buf]_vars

\* llm_worker alone, from the user_text to assistant_final: the language router is
\* fed the deltas of one generator stream
NextRouter ==
    \/ HRecvUserText
    \/ \E t \in Turns :
         \/ WfStart(t) \/ LlmStart(t) \/ LlmSendThinking(t) \/ LlmDelta(t)
         \/ LlmSendDelta(t) \/ LlmStreamEnd(t) \/ LlmSendFinal(t)

SpecRouter == InitRouter /\ [][NextRouter]_vars

\* indexes (from 0) of the end-punctuations of s at or after SOFT_MIN_CHARS - 1
LateBoundaries(s) ==
    {i \in (SOFT_MIN_CHARS - 1)..(Len(s) - 1) : s[i + 1] \in END_PUNCTS}

\* the generator stream of turn t ends in this step
StreamEnds(t) == llm[t].pc = "gen_next" /\ llm'[t].pc = "send_final"

\* the language of a text by the counting rule
Voice(s) == IF _lang_score(s).cjk >= _lang_score(s).lat THEN "zh" ELSE "en"

\* a reply of 40 Latin letters and 80 CJK characters: decided Chinese by the length
\* rule when the sample reached DECIDE_CHARS
C28_Witness ==
    /\ AUTO_LANG /\ wf[1].decided /\ wf[1].chosen_tts = "zh"
    /\ Len(wf[1].sample_buf) = DECIDE_CHARS
    /\ wf[1].sample_buf[1] = 97 /\ wf[1].sample_buf[DECIDE_CHARS] = 20013
    /\ llm[1].pc = "send_delta"

\* C28 as stated, the characters being counted in the accumulated sample: an
\* undecided router decides in a step exactly when the sample has reached
\* DECIDE_CHARS, or has an end-punctuation at index >= SOFT_MIN_CHARS - 1, or the
\* stream ends; the voice is Chinese when the sample has at least as many CJK
\* characters as Latin letters and English otherwise.
C28_RouterCountsSample ==
    [][\A t \in Turns :
          AUTO_LANG /\ ~wf[t].decided
          => LET S == wf'[t].sample_buf
             IN  /\ llm'[t].pc # "done"
                    => S = Prefix(llm'[t].full_text, Max2(DECIDE_CHARS, 256))
                 /\ wf'[t].decided <=> \/ Len(S) >= DECIDE_CHARS
                                       \/ LateBoundaries(S) # {}
                                       \/ StreamEnds(t)
                 /\ wf'[t].decided => wf'[t].chosen_tts = Voice(S)]_vars

\* C28, the characters being counted in the part of the sample the rule looks at:
\* the first DECIDE_CHARS characters when the sample has reached DECIDE_CHARS or the
\* stream ends, and otherwise the sample up to and including its earliest
\* end-punctuation at index >= SOFT_MIN_CHARS - 1.
C28_RouterRule ==
    [][\A t \in Turns :
          AUTO_LANG /\ ~wf[t].decided
          => LET S == wf'[t].sample_buf
                 B == LateBoundaries(S)
                 X == IF Len(S) >= DECIDE_CHARS \/ StreamEnds(t) \/ B = {}
                      THEN Prefix(S, DECIDE_CHARS)
                      ELSE Prefix(S, Min(B) + 1)
             IN  /\ llm'[t].pc # "done"
                    => S = Prefix(llm'[t].full_text, Max2(DECIDE_CHARS, 256))
                 /\ wf'[t].decided <=> \/ Len(S) >= DECIDE_CHARS
                                       \/ B # {}
                                       \/ StreamEnds(t)
                 /\ wf'[t].decided => wf'[t].chosen_tts = Voice(X)]_vars

\* the reply "OK."
OK == <<79, 75, 46>>

\* the reply "OK." in auto-language mode, played to the end: thinking, one
\* assistant_delta, assistant_final, then the audio announced with the English voice
C29_Witness ==
    /\ AUTO_LANG /\ wf[1].chosen_tts = "en" /\ Completed(1)
    /\ \E d \in FramesOf("assistant_delta", 1), f \in FramesOf("assistant_final", 1),
          b \in FramesOf("audio_begin", 1), a \in FramesOf("AUD0", 1),
          e \in FramesOf("audio_end", 1) :
          /\ wire[d].text = OK /\ wire[f].text = OK /\ wire[b].state = "en"
          /\ d < f /\ f < b /\ b < a /\ a < e

\* C29 as stated: in auto-language mode the single delta "OK." decides the English
\* voice by the early-boundary rule, that is when the delta is taken from the stream.
C29_OkDecidedEarly ==
    \A t \in Turns :
        AUTO_LANG /\ llm[t].pc = "send_delta" /\ llm[t].full_text = OK
        => wf[t].decided /\ wf[t].chosen_tts = "en"

\* C29, in auto-language mode: the delta "OK." leaves the language undecided while
\* the stream is open; the step in which the stream ends after "OK." decides the
\* English voice; a turn whose assistant_final is "OK." has sent exactly one
\* assistant_delta, before it, and every audio_begin of the turn announces English.
C29_OkDecidedAtStreamEnd ==
    [][\A t \in Turns :
          AUTO_LANG
          => /\ llm'[t].pc \in {"send_delta", "gen_next"} /\ llm'[t].full_text = OK
                => ~wf'[t].decided
             /\ StreamEnds(t) /\ llm[t].full_text = OK
                => ~wf[t].decided /\ wf'[t].decided /\ wf'[t].chosen_tts = "en"
             /\ \A f \in 1..Len(wire') :
                   /\ wire'[f].type = "assistant_final" /\ wire'[f].turn_id = t
                   /\ wire'[f].text = OK
                   => /\ \E d \in 1..(f - 1) :
                            {i \in 1..Len(wire') : /\ wire'[i].type = "assistant_delta"
                                                   /\ wire'[i].turn_id = t} = {d}
                      /\ \A b \in 1..Len(wire') :
                            wire'[b].type = "audio_begin" /\ wire'[b].turn_id = t
                            => wire'[b].state = "en"]_vars

\* llm_worker alone, fed the deltas of SegTexts: the pop loop runs after each delta
SpecSegmenter == InitSegmenter /\ [][NextRouter]_vars

\* the texts of the queue entries q[from..Len(q)], joined
RECURSIVE Joined(_, _)
Joined(q, from) == IF from > Len(q) THEN <<>> ELSE q[from].text \o Joined(q, from + 1)

\* a buffer of 80 characters with "." at indexes 40 and 75: one segment of 76
\* characters was cut (the natural cut, not the early one) and 4 characters remain
C30_Witness ==
    /\ llm[1].pc = "gen_next" /\ Len(llm[1].buf) = 4
    /\ Len(wf[1].tts_queue) = 1
    /\ Len(wf[1].tts_queue[1].text) = 76 /\ wf[1].tts_queue[1].text[41] = 46

\* C30: in the pop loop that follows a delta, every segment put on the queue is the
\* prefix of what was left of the buffer, of the length the five rules give for
\* it; the loop stops exactly when the rules give no segment; the segments and the
\* remainder concatenate to the buffer.
C30_PopSegmentRules ==
    [][\A t \in Turns :
          /\ llm[t].pc = "send_delta" /\ llm'[t].pc = "gen_next"
          /\ ~AUTO_LANG \/ wf[t].decided
          => LET P(b, lo, hi) == {i \in lo..hi : i < Len(b) /\ b[i + 1] \in END_PUNCTS}
                 Cut(b) ==
                     IF Len(b) < SOFT_MIN_CHARS THEN 0
                     ELSE IF Len(b) >= MIN_CHARS /\ P(b, MIN_CHARS - 1, Len(b) - 1) # {}
                          THEN Min(P(b, MIN_CHARS - 1, Len(b) - 1)) + 1
                     ELSE IF P(b, SOFT_MIN_CHARS - 1, MIN_CHARS - 2) # {}
                          THEN Min(P(b, SOFT_MIN_CHARS - 1, MIN_CHARS - 2)) + 1
                     ELSE IF Len(b) >= MAX_CHARS THEN MAX_CHARS
                     ELSE 0
                 q0 == wf[t].tts_queue
                 q1 == wf'[t].tts_queue
                 Left(k) == Joined(q1, k) \o llm'[t].buf
             IN  /\ Len(q1) >= Len(q0) /\ SubSeq(q1, 1, Len(q0)) = q0
                 /\ Left(Len(q0) + 1) = llm[t].buf
                 /\ \A k \in (Len(q0) + 1)..Len(q1) :
                       /\ Cut(Left(k)) > 0
                       /\ q1[k].text = SubSeq(Left(k), 1, Cut(Left(k)))
                 /\ Cut(llm'[t].buf) = 0]_vars

\* C31: every segment the pop loop puts on the queue after a delta (that is, before
\* the end of the stream) is between SOFT_MIN_CHARS and MAX_CHARS characters long.
C31_SegmentSizeBounded ==
    [][\A t \in Turns :
          llm[t].pc = "send_delta" /\ llm'[t].pc = "gen_next"
          => \A k \in (Len(wf[t].tts_queue) + 1)..Len(wf'[t].tts_queue) :
                /\ Len(wf'[t].tts_queue[k].text) >= SOFT_MIN_CHARS
                /\ Len(wf'[t].tts_queue[k].text) <= MAX_CHARS]_vars

\* C32: when the generator stream of a turn has ended (llm_worker is about to send
\* assistant_final and tts_worker has taken nothing from the queue yet), the texts
\* of the queue entries, joined in order, are the full reply text.
C32_SegmentsJoinToReply ==
    \A t \in Turns :
        llm[t].pc = "send_final" /\ tts[t].pc = "created"
        => Joined(wf[t].tts_queue, 1) = llm[t].full_text

\* C33: when the pop loop runs on a buffer of at least MIN_CHARS characters that has
\* no end-punctuation and has a newline at index >= MIN_CHARS - 1, a segment ending
\* just after the earliest such newline is put on the queue.
C33_NewlineIsBoundary ==
    [][\A t \in Turns :
          /\ llm[t].pc = "send_delta" /\ llm'[t].pc = "gen_next"
          /\ ~AUTO_LANG \/ wf[t].decided
          => LET B  == llm[t].buf
                 nl == {i \in (MIN_CHARS - 1)..(Len(B) - 1) : B[i + 1] = 10}
             IN  /\ Len(B) >= MIN_CHARS /\ nl # {}
                 /\ \A i \in 1..Len(B) : B[i] \notin END_PUNCTS
                 => /\ Len(wf'[t].tts_queue) > Len(wf[t].tts_queue)
                    /\ wf'[t].tts_queue[Len(wf[t].tts_queue) + 1].text
                          = SubSeq(B, 1, Min(nl) + 1)]_vars

C35_Witness ==
    /\ n_deltas = 2 /\ llm[1].pc = "gen_next" /\ llm[1].full_text = OK
    /\ Cardinality(FramesOf("assistant_delta", 1)) = 1
    /\ ~ev[1]

\* C35: a step in which the generator yields a delta and llm_worker goes on with an
\* unchanged full text (an empty delta) changes neither the locals of llm_worker
\* (full_text, buf), nor the sample and the queue, nor the metrics, nor the wire;
\* no assistant_delta frame has an empty text; and while llm_worker runs,
\* t_first_delta is stamped only when the full text is not empty.
C35_EmptyDeltaSkipped ==
    [][\A t \in Turns :
          /\ /\ llm[t].pc = "gen_next" /\ n_deltas' = n_deltas + 1
             /\ llm'[t].pc # "done" /\ llm'[t].full_text = llm[t].full_text
             => UNCHANGED <<llm, wf, tm, wire>>
          /\ \A i \in 1..Len(wire') :
                wire'[i].type = "assistant_delta" => wire'[i].text # <<>>
          /\ llm'[t].pc \in {"gen_next", "send_delta", "send_final"}
             /\ tm'[t].t_first_delta # 0
             => llm'[t].full_text # <<>>]_vars

\* C36: once the handler has stopped (its coroutine has ended with an exception or
\* after the disconnect), every turn that has begun to answer and whose task is not
\* done has its cancel_event set, and nothing more is written on the wire.
C36_NoTurnOutlivesHandler ==
    [][h.pc \in {"dead", "closed"}
       => /\ \A t \in Turns :
                StateFrames("thinking", t) # {} /\ wf[t].pc # "done" => ev[t]
          /\ wire' = wire]_vars

\* turn 1 ended by itself and turn 2 was created before the done callback of turn 1
\* has run: the callback finds the handle and the signal of turn 2, whose task runs
C37_Witness ==
    /\ wf[1].pc = "done" /\ 1 \in cb_pending
    /\ workflow_task = 2 /\ cancel_event = 2
    /\ wf[2].pc \notin {"none", "created", "done"}
    /\ FramesOf("assistant_final", 1) # {}

\* C37: the step in which the done callback of the task of turn t runs clears the
\* handle and the signal when the handle holds that task, and leaves both as they
\* are when the handle holds none or the task of another turn.
C37_DoneClearsOwnHandleOnly ==
    [][\A t \in Turns :
          t \in cb_pending /\ t \notin cb_pending'
          => IF workflow_task = t
             THEN workflow_task' = 0 /\ cancel_event' = 0
             ELSE UNCHANGED <<workflow_task, cancel_event>>]_vars

\* the handler is back at receive_text after a user_text that superseded turn 1:
\* the handle and the signal are those of turn 2, the signal of turn 1 is set
C38_Witness ==
    /\ h.pc = "recv" /\ n_msgs = 2
    /\ workflow_task = 2 /\ cancel_event = 2
    /\ ev[1] /\ ~ev[2] /\ wf[1].pc = "done" /\ wf[2].pc # "done"

\* C38: whenever the handler is at receive_text, the session's cancel_event is None
\* exactly when workflow_task is None, and otherwise it is the Event that was
\* created with, and passed to, the task workflow_task holds.
C38_SignalMatchesHandle ==
    h.pc = "recv" => cancel_event = workflow_task

Running == {c \in Calls : executor[c] = "running"}

\* generate up to "await fut" once _lock is held: run_in_executor submits _run_sync
\* to the default executor and the coroutine suspends on the future
GenSubmit(c) ==
    /\ _lock' = c
    /\ executor' = [executor EXCEPT ![c] = "queued"]
    /\ generate' = [generate EXCEPT ![c] = "await_fut"]

\* a turn calls generate: the method check passes (no kwargs), then
\* "async with self._lock" takes the lock at once when it is free and nobody waits,
\* and otherwise queues the caller
GenCall(c) ==
    /\ generate[c] = "new"
    /\ IF _lock = 0 /\ _waiters = <<>>
       THEN GenSubmit(c) /\ UNCHANGED _waiters
       ELSE /\ generate' = [generate EXCEPT ![c] = "wait_lock"]
            /\ _waiters' = Append(_waiters, c)
            /\ UNCHANGED <<_lock, executor>>
    /\ UNCHANGED <<AUTO_LANG, budget, n_msgs, n_deltas, n_chunks, chan, sess_vars, lock, h,
                   task_vars, wire, metrics_log, hist_vars>>

\* the first waiter is woken by the release of _lock and takes it
GenAcquire(c) ==
    /\ generate[c] = "wait_lock"
    /\ _lock = 0
    /\ _waiters # <<>> /\ Head(_waiters) = c
    /\ _waiters' = Tail(_waiters)
    /\ GenSubmit(c)
    /\ UNCHANGED <<AUTO_LANG, budget, n_msgs, n_deltas, n_chunks, chan, sess_vars, lock, h,
                   task_vars, wire, metrics_log, hist_vars>>

\* a thread of the executor takes the job and enters _run_sync (agent.run_batch)
ExecStart(c) ==
    /\ executor[c] = "queued"
    /\ executor' = [executor EXCEPT ![c] = "running"]
    /\ UNCHANGED <<generate, _lock, _waiters>>
    /\ UNCHANGED <<AUTO_LANG, budget, n_msgs, n_deltas, n_chunks, chan, sess_vars, lock, h,
                   task_vars, wire, metrics_log, hist_vars>>

\* _run_sync returns in its thread
ExecFinish(c) ==
    /\ executor[c] = "running"
    /\ executor' = [executor EXCEPT ![c] = "finished"]
    /\ UNCHANGED <<generate, _lock, _waiters>>
    /\ UNCHANGED <<AUTO_LANG, budget, n_msgs, n_deltas, n_chunks, chan, sess_vars, lock, h,
                   task_vars, wire, metrics_log, hist_vars>>

\* "return await fut": the result is there, the async with block releases _lock
GenReturn(c) ==
    /\ generate[c] = "await_fut"
    /\ executor[c] = "finished"
    /\ generate' = [generate EXCEPT ![c] = "returned"]
    /\ _lock' = 0
    /\ UNCHANGED <<_waiters, executor>>
    /\ UNCHANGED <<AUTO_LANG, budget, n_msgs, n_deltas, n_chunks, chan, sess_vars, lock, h,
                   task_vars, wire, metrics_log, hist_vars>>

\* the task of the caller is cancelled (cancel_workflow, disconnect).  Waiting for
\* _lock: the waiter leaves the queue.  Awaiting fut: the future is cancelled, which
\* takes the job out of the executor's queue only if no thread has started it
\* (a running _run_sync cannot be stopped); "except CancelledError: fut.cancel();
\* raise" leaves the async with block, which releases _lock
GenCancelled(c) ==
    /\ generate[c] \in {"wait_lock", "await_fut"}
    /\ generate' = [generate EXCEPT ![c] = "cancelled"]
    /\ IF generate[c] = "wait_lock"
       THEN /\ _waiters' = SelectSeq(_waiters, LAMBDA w : w # c)
            /\ UNCHANGED <<_lock, executor>>
       ELSE /\ _lock' = 0
            /\ executor' = [executor EXCEPT ![c] = IF @ = "queued" THEN "cancelled" ELSE @]
            /\ UNCHANGED _waiters
    /\ UNCHANGED <<AUTO_LANG, budget, n_msgs, n_deltas, n_chunks, chan, sess_vars, lock, h,
                   task_vars, wire, metrics_log, hist_vars>>

\* the singleton llm under the calls of the turns of all sessions
NextCrag ==
    \E c \in Calls :
       \/ GenCall(c) \/ GenAcquire(c) \/ ExecStart(c) \/ ExecFinish(c)
       \/ GenReturn(c) \/ GenCancelled(c)

SpecCrag == Init /\ [][NextCrag]_vars

\* C40: at most one _run_sync executes at any time, also after a caller of generate
\* was cancelled while its run was executing and another caller took _lock.
C40_OnePipelineRun ==
    Cardinality(Running) <= 1

====
